---- MODULE Spec2Model ----
(***************************************************************************)
(* A model of the 3D world's core: the terrain height query               *)
(* (js/terrain.js), the camera controller (js/camera-controller.js) and    *)
(* the performance optimizer (js/performance-optimizer.js).                *)
(*                                                                         *)
(* Lengths are whole world units.  The pixel ratio is a fixed-point number *)
(* in millionths.  Frame times are milliseconds.                           *)
(***************************************************************************)
EXTENDS Integers, Sequences, FiniteSets, TLC

VARIABLES
    heightData,      \* TerrainGenerator.heightData: <<>> before generation, <<grid>> after
    heightResult,    \* the last getHeightAt call and what it returned
    position,        \* CameraController.position
    keys,            \* CameraController.keys
    isFirstPerson,   \* CameraController.isFirstPerson
    yaw,             \* CameraController.euler.y in quarter turns
    cameraPosition,  \* camera.position, written by updateCamera
    camOp,           \* the CameraController operation that ran last
    pitch,           \* CameraController.euler.x (yaw above is euler.y)
    isPointerLocked, \* CameraController.isPointerLocked
    velocity,        \* CameraController.velocity
    cameraLook,      \* camera.quaternion, as the yaw and pitch it turns the camera by
    lodEnabled,      \* PerformanceOptimizer.lodEnabled
    frustumCullingEnabled,  \* PerformanceOptimizer.frustumCullingEnabled
    lodDistances,    \* PerformanceOptimizer.lodDistances
    lodObjects,      \* PerformanceOptimizer.lodObjects: uuid -> LOD node
    meshes,          \* the world's meshes: in the scene or not, visible, userData
    viewAt,          \* where the camera is, along the viewing axis
    viewFacing,      \* which way it looks along that axis: 1 or -1
    fpsHistory,      \* PerformanceOptimizer.fpsHistory
    performanceStats,  \* averageFPS, visibleObjects, culledObjects
    pixelRatio,      \* renderer.getPixelRatio(), in millionths
    devicePixelRatio,  \* window.devicePixelRatio, in millionths
    fpsStream,       \* the frame rates the host delivers frames at
    lodWrote,        \* the nodes whose visible flag updateLOD wrote in the last frame
    cullWrote,       \* the nodes whose visible flag the culler wrote in the last frame
    worldObjects,    \* WorldManager.objects: the ids of the objects in the world
    lodEvaluated,    \* per LOD node, the camera distance of its last lod.update
    adjusted,        \* what adaptiveQuality has changed since the last 1-second tick
    sampled,         \* the sum and the number of the samples the last tick averaged
    reducedDetail,   \* what createReducedDetail was last given and what it returned
    sceneChildren,   \* scene.children, each node with its own children
    cloneEntries,    \* the lodObjects entries whose key is the uuid of a level clone
    optOp,           \* the PerformanceOptimizer operation that ran last
    interactiveObjects,  \* WorldManager.interactiveObjects
    npcs,            \* WorldManager.npcs
    objectIdCounter, \* WorldManager.objectIdCounter
    isPaused,        \* VirtualWorld.isPaused
    poseRead,        \* where the optimizer's passes took the camera to be in the last frame
    appOp,           \* the VirtualWorld operation that ran last, and the parity of
                     \* the number of animation callbacks delivered so far
    pauseRequested,  \* the user's last togglePause asked for a pause
    documentHidden,  \* document.hidden
    isEnabled,       \* MeshInspector.isEnabled
    selectedObject,  \* MeshInspector.selectedObject: <<>> for null, <<name>> otherwise
    helpers,         \* which of MeshInspector's helpers exist: vertex, normal, boundingBox
    inspOp           \* the MeshInspector operation that ran last

terrainVars == <<heightData, heightResult>>
camVars == <<position, keys, isFirstPerson, yaw, cameraPosition, camOp,
             pitch, isPointerLocked, velocity, cameraLook>>
optVars == <<lodEnabled, frustumCullingEnabled, lodDistances, lodObjects, meshes,
             viewAt, viewFacing, fpsHistory, performanceStats, pixelRatio,
             devicePixelRatio, fpsStream, lodWrote, cullWrote, worldObjects,
             lodEvaluated, adjusted, sampled, reducedDetail, sceneChildren,
             cloneEntries, optOp>>
appVars == <<isPaused, poseRead, appOp, pauseRequested, documentHidden>>
inspVars == <<isEnabled, selectedObject, helpers, inspOp>>
worldVars == <<interactiveObjects, npcs, objectIdCounter>>
vars == <<terrainVars, camVars, optVars, appVars, inspVars, worldVars>>

(***************************************************************************)
(* TerrainGenerator                                                        *)
(***************************************************************************)

\* terrain.js:8 and terrain.js:9
size == 1000
segments == 256

\* The grids the model generates terrain from.
NumGrids == 2
Grids == 0 .. (NumGrids - 1)

\* The sample heightData[i][j] of grid g, for i, j in 0 .. segments.  The
\* source fills the grid from noise; here a fixed integer pattern stands for
\* it (grid 0 is 3 high at the centre cell).
HeightSample(g, i, j) ==
    ((i * 7 + j * 3 + g * 5) % 13) - 3

\* Math.floor(((coord + size / 2) / size) * segments), for a whole coord.
GridIndex(coord) ==
    ((2 * coord + size) * segments) \div (2 * size)

\* A plausible slip: the upper limit test written  >  instead of  >= .
getHeightAtOffByOne(hd, x, z) ==
    IF Len(hd) = 0 THEN 0
    ELSE LET nx == GridIndex(x)
             nz == GridIndex(z)
         IN  IF nx < 0 \/ nx > segments \/ nz < 0 \/ nz > segments
             THEN 0
             ELSE HeightSample(hd[1], nx, nz)

\* getHeightAt(x, z) over the height data hd.
getHeightAt(hd, x, z) ==
    IF Len(hd) = 0 THEN 0
    ELSE LET nx == GridIndex(x)
             nz == GridIndex(z)
         IN  IF nx < 0 \/ nx >= segments \/ nz < 0 \/ nz >= segments
             THEN 0
             ELSE HeightSample(hd[1], nx, nz)

\* The coordinates height queries are made at.
QueryCoords == {-501, -500, -499, -4, -1, 0, 3, 4, 496, 499, 500, 501}

NoResult == [called |-> FALSE, x |-> 0, z |-> 0, grid |-> <<>>, height |-> 0]

\* generateTerrain(scene): builds the height grid, once, at world creation.
generateTerrain(g) ==
    /\ Len(heightData) = 0
    /\ heightData' = <<g>>
    /\ heightResult' = NoResult
    /\ UNCHANGED <<camVars, optVars, appVars, inspVars, worldVars>>

\* A call of getHeightAt(x, z) by any collaborator.
GetHeightAtCall(x, z) ==
    /\ heightResult' = [called |-> TRUE, x |-> x, z |-> z, grid |-> heightData,
                        height |-> getHeightAt(heightData, x, z)]
    /\ UNCHANGED heightData
    /\ UNCHANGED <<camVars, optVars, appVars, inspVars, worldVars>>

(***************************************************************************)
(* CameraController                                                        *)
(*                                                                         *)
(* The view is held level and the yaw is a whole number of quarter turns,  *)
(* so the forward and right vectors are axis-aligned unit vectors and the  *)
(* position stays on whole coordinates.                                    *)
(***************************************************************************)

\* camera-controller.js:17, :18 (2.0), :40, :41
moveSpeed == 50
runMultiplier == 2
thirdPersonDistance == 15
thirdPersonHeight == 5
\* camera-controller.js:292 and :315: the eye height, and the probe's reach
eyeHeight == 2
\* camera-controller.js:221: deltaTime is limited to 0.1 s
maxDeltaTime == 100

\* How far from the origin the model lets the camera walk, and how high fly.
MaxCoordinate == 1
MaxAltitude == 8

Vec(a, b, c) == [x |-> a, y |-> b, z |-> c]
VecAdd(u, v) == Vec(u.x + v.x, u.y + v.y, u.z + v.z)
VecScale(u, k) == Vec(u.x * k, u.y * k, u.z * k)
Max(a, b) == IF a >= b THEN a ELSE b
Min(a, b) == IF a <= b THEN a ELSE b

\* The key codes the handlers know, and the intent each one drives.
KeyIntent ==
    [KeyW |-> "forward", KeyS |-> "backward", KeyA |-> "left", KeyD |-> "right",
     Space |-> "up", KeyC |-> "down", ShiftLeft |-> "run"]
\* The key codes pressed in the model.
KeyCodes == {"KeyW", "Space", "KeyC", "ShiftLeft"}
\* The key codes pressed where the camera is also put in place from outside.
CamKeyCodes == {"KeyC", "ShiftLeft"}

NoKeys ==
    [forward |-> FALSE, backward |-> FALSE, left |-> FALSE, right |-> FALSE,
     up |-> FALSE, down |-> FALSE, run |-> FALSE]

\* Angles of pitch are in ten-thousandths of a radian; yaw is in quarter turns.
\* camera-controller.js:19-21: the pitch one pixel of mouse movement turns,
\* minPolarAngle, and Math.PI / 2.
mouseSensitivity == 20
minPolarAngle == 1000
halfPi == 15708
maxPolarAngle == 2 * halfPi - minPolarAngle

\* Frame times handed to update, in milliseconds.
DeltaTimes == {20, 500}
\* Yaw values handed to setRotation, in quarter turns.
Yaws == {0, 1}

\* direction.set(0, 0, -1).applyEuler(euler), and the camera's world
\* direction in first person, for a level view.
Direction(q) ==
    CASE q = 0 -> Vec(0, 0, -1)
      [] q = 1 -> Vec(-1, 0, 0)
      [] q = 2 -> Vec(0, 0, 1)
      [] OTHER -> Vec(1, 0, 0)

\* right.crossVectors(direction, up).normalize() with up = (0, 1, 0).
Right(q) == LET d == Direction(q) IN Vec(-d.z, 0, d.x)

\* The direction of movement for the yaw q and the pitch p, to the nearest
\* whole step: sin p is at least a half from 0.5236 rad on, cos p from
\* 1.0472 rad down.
Rise(p) == IF p >= 5236 THEN 1 ELSE IF p <= -5236 THEN -1 ELSE 0
Advance(p) == IF p <= 10472 /\ p >= -10472 THEN 1 ELSE 0
Heading(q, p) ==
    LET d == Direction(q)
    IN  Vec(d.x * Advance(p), Rise(p), d.z * Advance(p))

\* A plausible slip: the down branch tested first.
VelocityDownFirst(k, q, p, speed) ==
    LET f == IF k.forward THEN VecScale(Heading(q, p), speed) ELSE Vec(0, 0, 0)
        b == IF k.backward THEN VecScale(Heading(q, p), -speed) ELSE Vec(0, 0, 0)
        l == IF k.left THEN VecScale(Right(q), -speed) ELSE Vec(0, 0, 0)
        r == IF k.right THEN VecScale(Right(q), speed) ELSE Vec(0, 0, 0)
        h == VecAdd(VecAdd(f, b), VecAdd(l, r))
    IN  Vec(h.x, IF k.down THEN -speed ELSE IF k.up THEN speed ELSE 0, h.z)

\* The velocity updateMovement leaves: the horizontal components are reset
\* and summed from the intents; velocity.y, whatever the sum has put into
\* it, is then assigned speed, -speed or 0.
Velocity(k, q, p, speed) ==
    LET f == IF k.forward THEN VecScale(Heading(q, p), speed) ELSE Vec(0, 0, 0)
        b == IF k.backward THEN VecScale(Heading(q, p), -speed) ELSE Vec(0, 0, 0)
        l == IF k.left THEN VecScale(Right(q), -speed) ELSE Vec(0, 0, 0)
        r == IF k.right THEN VecScale(Right(q), speed) ELSE Vec(0, 0, 0)
        h == VecAdd(VecAdd(f, b), VecAdd(l, r))
    IN  Vec(h.x, IF k.up THEN speed ELSE IF k.down THEN -speed ELSE 0, h.z)

\* const speed = moveSpeed * (run ? runMultiplier : 1) * deltaTime,
\* with deltaTime in milliseconds already limited.
Speed(k, dt) ==
    (moveSpeed * (IF k.run THEN runMultiplier ELSE 1) * dt) \div 1000

\* The scene under the camera: the heights above the ground of the upward
\* faces of the non-terrain meshes standing at (x, z).
SurfacesAt(x, z) ==
    IF x = 1 /\ z = 0 THEN {3, 4}
    ELSE IF x = 0 /\ z = -1 THEN {3}
    ELSE {}

\* raycaster.intersectObjects(scene.children, true) for a ray from p straight
\* down, without the mesh named 'terrain': the distances of the hits.
ProbeHits(hd, p) ==
    {p.y - (getHeightAt(hd, p.x, p.z) + s) :
        s \in {t \in SurfacesAt(p.x, p.z) : getHeightAt(hd, p.x, p.z) + t <= p.y}}

\* The hits in the order the raycaster returns them: nearest first.
RECURSIVE SortedHits(_)
SortedHits(ds) ==
    IF ds = {} THEN <<>>
    ELSE LET m == CHOOSE d \in ds : \A e \in ds : d <= e
         IN  <<m>> \o SortedHits(ds \ {m})

\* The loop of checkObjectCollisions over the hits, from the ray origin's
\* height y0: every hit nearer than 2 sets position.y = point.y + 2.
RECURSIVE CollideLoop(_, _, _)
CollideLoop(hits, y0, y) ==
    IF hits = <<>> THEN y
    ELSE CollideLoop(Tail(hits), y0,
                     IF Head(hits) < eyeHeight THEN (y0 - Head(hits)) + eyeHeight ELSE y)

checkObjectCollisions(hd, p) ==
    Vec(p.x, CollideLoop(SortedHits(ProbeHits(hd, p)), p.y, p.y), p.z)

\* A plausible slip: the terrain test left out.
applyTerrainCollisionNoClamp(hd, p) ==
    checkObjectCollisions(hd, p)

\* applyTerrainCollision on the position p.
applyTerrainCollision(hd, p) ==
    LET minHeight == getHeightAt(hd, p.x, p.z) + eyeHeight
        q == IF p.y < minHeight THEN Vec(p.x, minHeight, p.z) ELSE p
    IN  checkObjectCollisions(hd, q)

\* The pitch camera.lookAt(cameraTarget) leaves the camera with in third
\* person, for the euler pitch p: the camera stands thirdPersonDistance
\* behind the player, turned by p, and thirdPersonHeight higher, and looks at
\* a point 2 above the player: atan2(15 sin p - 3, 15 cos p).
LookAtPitch(p) ==
    CASE p = 0 -> -1974
      [] p = minPolarAngle - halfPi -> -14875
      [] p = maxPolarAngle - halfPi -> 14459
      [] p = 15000 -> 14823

\* updateCamera: the orientation it leaves the camera with.
LookFor(first, q, p, look) ==
    IF first THEN look ELSE [yaw |-> q, pitch |-> LookAtPitch(p)]

\* The yaw the movement directions are taken from: the camera's own in
\* first person, the euler's in third.
MoveYaw == IF isFirstPerson THEN cameraLook.yaw ELSE yaw
MovePitch == IF isFirstPerson THEN cameraLook.pitch ELSE pitch

\* updateCamera: where the camera is put for the position p.
CameraFor(p, first, q) ==
    IF first THEN p
    ELSE LET d == Direction(q)
         IN  Vec(p.x - d.x * thirdPersonDistance, p.y + thirdPersonHeight,
                 p.z - d.z * thirdPersonDistance)

\* The constructor's fields (camera-controller.js:13-49), before init().
CamConstructed ==
    /\ position = Vec(0, 10, 0)
    /\ keys = NoKeys
    /\ isFirstPerson = TRUE
    /\ yaw = 0
    /\ cameraPosition = Vec(0, 10, 0)
    /\ camOp = "constructor"
    /\ pitch = 0
    /\ isPointerLocked = FALSE
    /\ velocity = Vec(0, 0, 0)
    /\ cameraLook = [yaw |-> 0, pitch |-> 0]

\* The controller after init().
CamInit ==
    /\ position = Vec(0, getHeightAt(heightData, 0, 0) + eyeHeight, 0)
    /\ keys = NoKeys
    /\ isFirstPerson = TRUE
    /\ yaw = 0
    /\ cameraPosition = position
    /\ camOp = "init"
    /\ pitch = 0
    /\ isPointerLocked = FALSE
    /\ velocity = Vec(0, 0, 0)
    /\ cameraLook = [yaw |-> 0, pitch |-> 0]

onKeyDown(code) ==
    /\ keys' = [keys EXCEPT ![KeyIntent[code]] = TRUE]
    /\ camOp' = "onKeyDown"
    /\ UNCHANGED <<position, isFirstPerson, yaw, cameraPosition, pitch,
                   isPointerLocked, velocity, cameraLook>>
    /\ UNCHANGED <<terrainVars, optVars, appVars, inspVars, worldVars>>

onKeyUp(code) ==
    /\ keys' = [keys EXCEPT ![KeyIntent[code]] = FALSE]
    /\ camOp' = "onKeyUp"
    /\ UNCHANGED <<position, isFirstPerson, yaw, cameraPosition, pitch,
                   isPointerLocked, velocity, cameraLook>>
    /\ UNCHANGED <<terrainVars, optVars, appVars, inspVars, worldVars>>

\* update(deltaTime): updateMovement, applyTerrainCollision, updateCamera, as
\* it changes the controller and the camera.
CameraUpdate(deltaTime) ==
    LET dt == IF deltaTime > maxDeltaTime THEN maxDeltaTime ELSE deltaTime
        v == Velocity(keys, MoveYaw, MovePitch, Speed(keys, dt))
        moved == VecAdd(position, v)
        p == applyTerrainCollision(heightData, moved)
    IN  /\ velocity' = v
        /\ (moved.x = position.x \/ (moved.x >= -MaxCoordinate /\ moved.x <= MaxCoordinate))
        /\ (moved.z = position.z \/ (moved.z >= -MaxCoordinate /\ moved.z <= MaxCoordinate))
        /\ (moved.y <= position.y \/ moved.y <= MaxAltitude)
        /\ position' = p
        /\ cameraPosition' = CameraFor(p, isFirstPerson, yaw)
        /\ cameraLook' = LookFor(isFirstPerson, yaw, pitch, cameraLook)
        /\ camOp' = "update"
        /\ UNCHANGED <<keys, isFirstPerson, yaw, pitch, isPointerLocked>>

\* cameraController.update(deltaTime), called on its own.
update(deltaTime) ==
    /\ CameraUpdate(deltaTime)
    /\ UNCHANGED <<terrainVars, optVars, appVars, inspVars, worldVars>>

\* The positions handed to setPosition, and the places teleported to.
SetPositionTargets == {Vec(0, 10, 0), Vec(0, 4, 0), Vec(1, 9, 0), Vec(1, -1, 1)}
TeleportTargets == {<<0, 0>>, <<-1, 1>>, <<500, 0>>}

setPosition(p) ==
    /\ position' = p
    /\ cameraPosition' = CameraFor(p, isFirstPerson, yaw)
    /\ cameraLook' = LookFor(isFirstPerson, yaw, pitch, cameraLook)
    /\ camOp' = "setPosition"
    /\ UNCHANGED <<keys, isFirstPerson, yaw, pitch, isPointerLocked, velocity>>
    /\ UNCHANGED <<terrainVars, optVars, appVars, inspVars, worldVars>>

teleportTo(x, z) ==
    LET p == Vec(x, getHeightAt(heightData, x, z) + eyeHeight, z)
    IN  /\ position' = p
        /\ cameraPosition' = CameraFor(p, isFirstPerson, yaw)
        /\ cameraLook' = LookFor(isFirstPerson, yaw, pitch, cameraLook)
        /\ camOp' = "teleportTo"
        /\ UNCHANGED <<keys, isFirstPerson, yaw, pitch, isPointerLocked, velocity>>
        /\ UNCHANGED <<terrainVars, optVars, appVars, inspVars, worldVars>>

\* toggleMode(): leaving first person with the pointer locked asks the
\* document to release it; the release arrives as a pointerlockchange event.
toggleMode ==
    /\ isFirstPerson' = ~isFirstPerson
    /\ cameraPosition' = CameraFor(position, ~isFirstPerson, yaw)
    /\ cameraLook' = LookFor(~isFirstPerson, yaw, pitch, cameraLook)
    /\ camOp' = "toggleMode"
    /\ UNCHANGED <<position, keys, yaw, pitch, isPointerLocked, velocity>>
    /\ UNCHANGED <<terrainVars, optVars, appVars, inspVars, worldVars>>

\* setRotation(yaw, pitch).
setRotation(q, p) ==
    /\ yaw' = q
    /\ pitch' = p
    /\ cameraLook' = IF isFirstPerson THEN [yaw |-> q, pitch |-> p] ELSE cameraLook
    /\ camOp' = "setRotation"
    /\ UNCHANGED <<position, keys, isFirstPerson, cameraPosition, isPointerLocked, velocity>>
    /\ UNCHANGED <<terrainVars, optVars, appVars, inspVars, worldVars>>

\* Math.max(minPolarAngle - PI/2, Math.min(maxPolarAngle - PI/2, x)).
ClampPitch(x) == Max(minPolarAngle - halfPi, Min(maxPolarAngle - halfPi, x))

\* A plausible slip: the limit left out.
ClampPitchNone(x) == x

\* onMouseMove(event): turns is movementX in the mouse travel that makes a
\* quarter turn of yaw, movementY is in pixels.
onMouseMove(turns, movementY) ==
    IF ~isPointerLocked /\ isFirstPerson
    THEN /\ camOp' = "onMouseMove"
         /\ UNCHANGED <<position, keys, isFirstPerson, yaw, cameraPosition, pitch,
                        isPointerLocked, velocity, cameraLook>>
         /\ UNCHANGED <<terrainVars, optVars, appVars, inspVars, worldVars>>
    ELSE LET y == (cameraLook.yaw - turns) % 4
             x == ClampPitch(cameraLook.pitch - movementY * mouseSensitivity)
         IN  /\ yaw' = y
             /\ pitch' = x
             /\ cameraLook' = IF isFirstPerson THEN [yaw |-> y, pitch |-> x]
                              ELSE cameraLook
             /\ camOp' = "onMouseMove"
             /\ UNCHANGED <<position, keys, isFirstPerson, cameraPosition,
                            isPointerLocked, velocity>>
             /\ UNCHANGED <<terrainVars, optVars, appVars, inspVars, worldVars>>

\* The pointerlockchange listener: the pointer has been locked to the canvas
\* (after onClick's request in first person) or released.
onPointerLockChange(locked) ==
    /\ locked # isPointerLocked
    /\ locked => isFirstPerson
    /\ isPointerLocked' = locked
    /\ camOp' = "pointerlockchange"
    /\ UNCHANGED <<position, keys, isFirstPerson, yaw, cameraPosition, pitch,
                   velocity, cameraLook>>
    /\ UNCHANGED <<terrainVars, optVars, appVars, inspVars, worldVars>>

\* What the mouse and setRotation are given in the model.
MouseMoves == {<<0, 1500>>, <<1, -1500>>}
Pitches == {0, 15000}

(***************************************************************************)
(* PerformanceOptimizer                                                    *)
(*                                                                         *)
(* The scene is laid out along the camera's viewing axis: every object and *)
(* the camera have one coordinate, the camera looks up or down the axis,   *)
(* and the frustum is the stretch between its near and far planes.         *)
(***************************************************************************)

\* performance-optimizer.js:14, :431, :434
InitialDistances == <<50, 150, 300>>
NearDistances == <<30, 80, 150>>
FarDistances == <<70, 200, 400>>

\* The pixel ratio 1 in millionths, and the floor 0.5
\* (performance-optimizer.js:418 and :420); main.js:85 caps the initial ratio at 2.
One == 1000000
minPixelRatio == 500000
maxInitialPixelRatio == 2000000
\* performance-optimizer.js:26
initialAverageFPS == 60
\* main.js:72 and :73: the camera's near plane in tenths of a unit, and its far plane
cameraNearTenths == 1
cameraFar == 2000

\* The frames the model lets pile up between two ticks of the 1-second timer.
MaxFrames == 2

\* The world's meshes, where each stands on the axis, the radius of its
\* bounding sphere, and whether createReducedDetail can rebuild it.
Objects == {"rock", "statue", "relic"}
ObjectAt(o) == IF o = "statue" THEN 100 ELSE 0
ObjectRadius(o) == IF o = "statue" THEN 3 ELSE 2

\* geometry.parameters is there: the rock's and the statue's geometries are
\* three.js's procedural ones; the relic's is a plain BufferGeometry, which
\* has none.
HasParameters(o) == o # "relic"

\* createReducedDetail(object, detailLevel) returns an object: for the rock a
\* clone with a geometry rebuilt from fewer segments, for the relic the clone
\* as it is (the branch on geometry.parameters is skipped and the clone is
\* returned); for the statue, whose material is an array,
\* reduced.material.clone() throws and the catch returns null.
Reducible(o) == o # "statue"

\* The worlds the optimizer is run over: the meshes the scene holds.
Worlds == {{"rock"}, {"statue"}, {"relic"}}

\* Where the camera is put, and which way it is turned (1 up the axis, -1 down).
Views == {<<0, 1>>, <<60, -1>>, <<60, 1>>, <<175, -1>>, <<2200, -1>>}

\* userData.originallyVisible: <<>> while undefined, <<b>> once captured.
Undefined == <<>>

Abs(n) == IF n < 0 THEN -n ELSE n

\* _v1.distanceTo(_v2) in LOD.update: from the camera to the LOD node.
Distance(o) == Abs(viewAt - ObjectAt(o))

\* frustum.intersectsSphere(sphere) for the bounding sphere of object o: no
\* plane has the centre more than the radius behind it.
IntersectsFrustum(o, at, facing) ==
    LET axial == (ObjectAt(o) - at) * facing
    IN  /\ 10 * (axial + ObjectRadius(o)) >= cameraNearTenths
        /\ axial - ObjectRadius(o) <= cameraFar

\* A plausible slip: every level added at the distance 0.
LevelAtZero(kind, distance, visible, originallyVisible) ==
    [kind |-> kind, distance |-> 0, visible |-> visible,
     originallyVisible |-> originallyVisible]

\* One representation of a LOD node.
Level(kind, distance, visible, originallyVisible) ==
    [kind |-> kind, distance |-> distance, visible |-> visible,
     originallyVisible |-> originallyVisible]

\* LOD.addLevel(object, distance): inserted before the first farther level.
addLevel(levels, lv) ==
    LET l == Cardinality({i \in 1 .. Len(levels) :
                             \A j \in 1 .. i : ~(lv.distance < levels[j].distance)})
    IN  SubSeq(levels, 1, l) \o <<lv>> \o SubSeq(levels, l + 1, Len(levels))

\* A plausible slip: the comparison of the loop turned round.
RECURSIVE LodWalkReversed(_, _, _)
LodWalkReversed(levels, i, dist) ==
    IF i <= Len(levels) /\ dist < levels[i].distance
    THEN LodWalkReversed([levels EXCEPT ![i - 1].visible = FALSE, ![i].visible = TRUE],
                         i + 1, dist)
    ELSE <<levels, i>>

\* The loop of LOD.update from level i on: while the camera is at least as
\* far as level i, hide level i - 1 and show level i.  Yields the levels and
\* the index the loop stopped at.
RECURSIVE LodWalk(_, _, _)
LodWalk(levels, i, dist) ==
    IF i <= Len(levels) /\ dist >= levels[i].distance
    THEN LodWalk([levels EXCEPT ![i - 1].visible = FALSE, ![i].visible = TRUE],
                 i + 1, dist)
    ELSE <<levels, i>>

\* lod.update(camera) for a camera at distance dist: levels are numbered from
\* 1 here, so current is THREE's _currentLevel + 1.
LodUpdate(lod, dist) ==
    IF Len(lod.levels) > 1
    THEN LET first == [lod.levels EXCEPT ![1].visible = TRUE]
             walked == LodWalk(first, 2, dist)
             stop == walked[2]
         IN  [levels |-> [j \in 1 .. Len(lod.levels) |->
                             IF j >= stop
                             THEN [walked[1][j] EXCEPT !.visible = FALSE]
                             ELSE walked[1][j]],
              current |-> stop - 1]
    ELSE lod

\* updateLOD over the registry.
updateLOD(lods, at) ==
    [o \in DOMAIN lods |-> LodUpdate(lods[o], Abs(at - ObjectAt(o)))]

\* What the culler does to one tested node of object o (a record with the
\* fields visible and originallyVisible).
CullNode(node, o, at, facing) ==
    LET isVisible == IntersectsFrustum(o, at, facing)
        ov == IF node.originallyVisible = Undefined
              THEN <<node.visible>>
              ELSE node.originallyVisible
    IN  [node EXCEPT !.originallyVisible = ov, !.visible = isVisible /\ ov[1]]

\* The nodes scene.traverse meets that are meshes or sprites: <<o, 0>> is the
\* world mesh o itself, <<o, k>> the k-th level of its LOD node.
SceneNodes(ms, lods) ==
    LET inScene == {<<o, 0>> : o \in {m \in DOMAIN ms : ms[m].inScene}}
        levels == {n \in (DOMAIN lods) \X (1 .. 4) : n[2] <= Len(lods[n[1]].levels)}
    IN  inScene \cup levels

\* updateFrustumCulling, on the meshes and on the LOD nodes' levels.
CullMeshes(ms, at, facing) ==
    [o \in DOMAIN ms |-> IF ms[o].inScene THEN CullNode(ms[o], o, at, facing) ELSE ms[o]]

CullLods(lods, at, facing) ==
    [o \in DOMAIN lods |->
        [lods[o] EXCEPT !.levels =
            [k \in 1 .. Len(lods[o].levels) |-> CullNode(lods[o].levels[k], o, at, facing)]]]

\* visibleCount and culledCount of one pass.
CullCounts(ms, lods, at, facing) ==
    LET nodes == SceneNodes(ms, lods)
        seen == {n \in nodes : IntersectsFrustum(n[1], at, facing)}
    IN  [visible |-> Cardinality(seen), culled |-> Cardinality(nodes \ seen)]

\* A plausible slip: the rise not capped at the device's ratio.
AdaptPixelRatioUncapped(avgFPS, ratio, deviceRatio) ==
    IF avgFPS < 30 /\ ratio > One
    THEN Max(minPixelRatio, (ratio * 9) \div 10)
    ELSE IF avgFPS > 55 /\ ratio < deviceRatio
    THEN (ratio * 11) \div 10
    ELSE ratio

\* A plausible slip: the pixel ratio set straight to the bound.
AdaptPixelRatioJump(avgFPS, ratio, deviceRatio) ==
    IF avgFPS < 30 /\ ratio > One
    THEN minPixelRatio
    ELSE IF avgFPS > 55 /\ ratio < deviceRatio
    THEN deviceRatio
    ELSE ratio

\* A plausible slip: the band's edges taken into the presets.
AdaptDistancesInclusive(avgFPS, distances) ==
    IF avgFPS <= 25 THEN NearDistances
    ELSE IF avgFPS >= 50 THEN FarDistances
    ELSE distances

\* adaptiveQuality: the new pixel ratio and the new thresholds.
AdaptPixelRatio(avgFPS, ratio, deviceRatio) ==
    IF avgFPS < 30 /\ ratio > One
    THEN Max(minPixelRatio, (ratio * 9) \div 10)
    ELSE IF avgFPS > 55 /\ ratio < deviceRatio
    THEN Min(deviceRatio, (ratio * 11) \div 10)
    ELSE ratio

AdaptDistances(avgFPS, distances) ==
    IF avgFPS < 25 THEN NearDistances
    ELSE IF avgFPS > 50 THEN FarDistances
    ELSE distances

\* Math.round(sum / length) over the samples of one interval.
RECURSIVE Sum(_)
Sum(sq) == IF sq = <<>> THEN 0 ELSE Head(sq) + Sum(Tail(sq))
MeanFPS(history) == (2 * Sum(history) + Len(history)) \div (2 * Len(history))

\* geometry.parameters as far as createReducedDetail reads it: the three
\* segment counts, 0 standing for a count the geometry class does not have.
Params(radial, height, width) ==
    [radialSegments |-> radial, heightSegments |-> height, widthSegments |-> width]

\* The most segments a geometry is given in the model.
MaxSegments == 8

\* The geometries createReducedDetail is given: cylinders (the trees'
\* trunks, 8 radial segments), spheres (the crowns, 8 by 6), boxes (the
\* buildings) and dodecahedra (the rocks, whose parameters hold no count).
Geometries ==
    {[class |-> "CylinderGeometry", parameters |-> Params(r, h, 0)] :
        r \in 1 .. MaxSegments, h \in 1 .. 4}
    \cup {[class |-> "SphereGeometry", parameters |-> Params(0, h, w)] :
        h \in 2 .. 6, w \in 3 .. MaxSegments}
    \cup {[class |-> "BoxGeometry", parameters |-> Params(0, 1, 1)],
          [class |-> "DodecahedronGeometry", parameters |-> Params(0, 0, 0)]}

\* The detail levels createLODForObject asks for, in tenths.
DetailLevels == {6, 3}

\* Math.max(least, Math.floor(n * detailLevel)) for a count that is there.
\* A plausible slip: the floor left out.
ReduceCountNoFloor(n, least, f) ==
    IF n = 0 THEN 0 ELSE (n * f) \div 10

ReduceCount(n, least, f) ==
    IF n = 0 THEN 0 ELSE Max(least, (n * f) \div 10)

\* The params createReducedDetail hands to the geometry's constructor.
ReduceParams(ps, f) ==
    Params(ReduceCount(ps.radialSegments, 3, f),
           ReduceCount(ps.heightSegments, 1, f),
           ReduceCount(ps.widthSegments, 1, f))

\* The counts the constructor builds the geometry with (three.js r158):
\* SphereGeometry takes at least 3 width and 2 height segments, the others
\* take the counts as given.  parameters keeps the counts as handed in.
BuiltWith(class, ps) ==
    IF class = "SphereGeometry"
    THEN Params(0, Max(2, ps.heightSegments), Max(3, ps.widthSegments))
    ELSE ps

NoDetail ==
    [called |-> FALSE, class |-> "", given |-> Params(0, 0, 0), detailLevel |-> 0,
     parameters |-> Params(0, 0, 0), built |-> Params(0, 0, 0), returned |-> FALSE]

\* What a call of createReducedDetail does with the geometry g at the detail
\* level f; single is whether the mesh has one material (with an array of
\* them material.clone() throws, after the geometry has been rebuilt, and
\* null is returned).
DetailOf(g, f, single) ==
    [called |-> TRUE, class |-> g.class, given |-> g.parameters,
     detailLevel |-> f, parameters |-> ReduceParams(g.parameters, f),
     built |-> BuiltWith(g.class, ReduceParams(g.parameters, f)),
     returned |-> single]

\* The objects WorldManager may register after the world the optimizer was
\* built over.
MaxObjects == 3

\* registerObject's ids, `${type}_${objectIdCounter}`, by type and counter.
ObjectIds ==
    [tree |-> <<"tree_0", "tree_1", "tree_2", "tree_3", "tree_4">>,
     rock |-> <<"rock_0", "rock_1", "rock_2", "rock_3", "rock_4">>,
     building |-> <<"building_0", "building_1", "building_2", "building_3",
                    "building_4">>,
     npc |-> <<"npc_0", "npc_1", "npc_2", "npc_3", "npc_4">>]
IdOf(type, n) == ObjectIds[type][n + 1]
IdsOf(type) == {ObjectIds[type][i] : i \in 1 .. Len(ObjectIds[type])}
AllIds == IdsOf("tree") \cup IdsOf("rock") \cup IdsOf("building") \cup IdsOf("npc")

\* The geometries of the world's meshes: the rock's dodecahedron, the
\* statue's cylinder, the relic's plain BufferGeometry.
GeometryOf(o) ==
    IF o = "rock" \/ o \in IdsOf("rock") THEN [class |-> "DodecahedronGeometry", parameters |-> Params(0, 0, 0)]
    ELSE IF o = "statue" THEN [class |-> "CylinderGeometry", parameters |-> Params(8, 1, 0)]
    ELSE [class |-> "BufferGeometry", parameters |-> Params(0, 0, 0)]

\* createReducedDetail(object, detailLevel) for a mesh with the geometry g
\* and one material.
createReducedDetail(g, f) ==
    /\ reducedDetail' = DetailOf(g, f, TRUE)
    /\ optOp' = <<"createReducedDetail", g.class>>
    /\ UNCHANGED <<lodEnabled, frustumCullingEnabled, lodDistances, lodObjects, meshes,
                   viewAt, viewFacing, fpsHistory, performanceStats, pixelRatio,
                   devicePixelRatio, fpsStream, lodWrote, cullWrote, worldObjects,
                   lodEvaluated, adjusted, sampled, sceneChildren, cloneEntries>>
    /\ UNCHANGED <<terrainVars, camVars, appVars, inspVars, worldVars>>

\* The depth of nested traverse calls at which the host's call stack is
\* exhausted and the call throws a RangeError.
StackDepth == 2

\* A node of the scene graph: what it is, the world object it stands for, the
\* level of a LOD node it is ("" when it is none), whether its
\* userData.type is set, and its children.
Node(kind, name, level, typed, children) ==
    [kind |-> kind, name |-> name, level |-> level, typed |-> typed,
     children |-> children]

\* A light of the scene; the group of a tree, a building or an NPC with the
\* id o, its type set, whose meshes (two of them here) have none; the world
\* mesh o.
Light == Node("light", "", "", FALSE, <<>>)
GroupNode(o) ==
    Node("group", o, "", TRUE,
         <<Node("mesh", "", "", FALSE, <<>>), Node("mesh", "", "", FALSE, <<>>)>>)
MeshNode(o, level) == Node("mesh", o, level, TRUE, <<>>)

\* The LOD node createLODForObject builds for a mesh of the world object o:
\* object.clone() and the clones of createReducedDetail copy userData, type
\* included; the impostor is a sprite.  The LOD node is no mesh.
LodNode(o) ==
    Node("lod", o, "", TRUE,
         <<MeshNode(o, "full")>>
         \o (IF Reducible(o) THEN <<MeshNode(o, "medium"), MeshNode(o, "low")>>
             ELSE <<>>)
         \o <<Node("sprite", o, "impostor", FALSE, <<>>)>>)

\* Object3D.remove(child i); parent.add(lod) followed by parent.remove(child i).
Remove(ch, i) == SubSeq(ch, 1, i - 1) \o SubSeq(ch, i + 1, Len(ch))
Replace(ch, i, lod) == Remove(ch, i) \o <<lod>>

\* Where the world mesh o is among the children ch, if it is.
HasMesh(ch, o) ==
    \E i \in 1 .. Len(ch) : ch[i].kind = "mesh" /\ ch[i].name = o /\ ch[i].level = ""
MeshIndex(ch, o) ==
    CHOOSE i \in 1 .. Len(ch) : ch[i].kind = "mesh" /\ ch[i].name = o /\ ch[i].level = ""

\* Where the object o, a mesh or a group, is among the children ch, if it is.
HasObject(ch, o) ==
    \E i \in 1 .. Len(ch) :
        ch[i].kind \in {"mesh", "group"} /\ ch[i].name = o /\ ch[i].level = ""
ObjectIndex(ch, o) ==
    CHOOSE i \in 1 .. Len(ch) :
        ch[i].kind \in {"mesh", "group"} /\ ch[i].name = o /\ ch[i].level = ""

\* list.indexOf(object), counted from 1, and 0 where JavaScript has -1.
IndexOf(list, object) ==
    IF \E i \in 1 .. Len(list) : list[i] = object
    THEN CHOOSE i \in 1 .. Len(list) :
             list[i] = object /\ \A j \in 1 .. i - 1 : list[j] # object
    ELSE 0

\* A plausible slip: the index tested with `> 0`, so that the first element
\* is never removed.
SpliceOutAfterFirst(list, object) ==
    IF IndexOf(list, object) > 1 THEN Remove(list, IndexOf(list, object)) ELSE list

\* `index = list.indexOf(object); if (index > -1) list.splice(index, 1)`.
SpliceOut(list, object) ==
    IF IndexOf(list, object) > 0 THEN Remove(list, IndexOf(list, object)) ELSE list

\* The scene the world is built into: the light, then the world's meshes.
RECURSIVE MeshNodes(_)
MeshNodes(os) ==
    IF os = {} THEN <<>>
    ELSE LET o == CHOOSE m \in os : TRUE
         IN  <<MeshNode(o, "")>> \o MeshNodes(os \ {o})
SceneOf(os) == <<Light>> \o MeshNodes(os)

\* The callback of forceLODUpdate on the node c: a mesh with userData.type
\* that is not in lodObjects.  A world mesh is there under its own uuid; a
\* level clone has a uuid of its own, which is the key of no entry while
\* the clone is in the graph.
Unregistered(c, lods) ==
    c.kind = "mesh" /\ c.typed /\ ~(c.level = "" /\ c.name \in lods)

\* Object3D.traverse(callback) with forceLODUpdate's callback, from child i
\* on of the children ch: `for (i = 0, l = children.length; i < l; i++)
\* children[i].traverse(callback)`, with l read once, while the callback
\* replaces the mesh it is given by a LOD node appended to the same
\* children.  Yields the children afterwards, the world meshes and the
\* number of level clones registered, the object registered last, and
\* whether the call stack ran out.
RECURSIVE TraverseFrom(_, _, _, _, _)
TraverseFrom(ch, i, l, depth, lods) ==
    IF i > l
    THEN [children |-> ch, top |-> {}, clones |-> 0, last |-> <<>>, thrown |-> FALSE]
    ELSE IF depth > StackDepth
    THEN [children |-> ch, top |-> {}, clones |-> 0, last |-> <<>>, thrown |-> TRUE]
    ELSE IF Unregistered(ch[i], lods)
    THEN LET c == ch[i]
             rest == TraverseFrom(Replace(ch, i, LodNode(c.name)), i + 1, l, depth, lods)
         IN  [rest EXCEPT !.top = IF c.level = "" THEN @ \cup {c.name} ELSE @,
                          !.clones = IF c.level = "" THEN @ ELSE @ + 1,
                          !.last = IF @ = <<>> THEN <<c.name>> ELSE @]
    ELSE LET inner == TraverseFrom(ch[i].children, 1, Len(ch[i].children),
                                   depth + 1, lods)
             ch1 == [ch EXCEPT ![i].children = inner.children]
             rest == TraverseFrom(ch1, i + 1, l, depth, lods)
         IN  IF inner.thrown
             THEN [inner EXCEPT !.children = ch1]
             ELSE [rest EXCEPT !.top = @ \cup inner.top,
                               !.clones = @ + inner.clones,
                               !.last = IF @ = <<>> THEN inner.last ELSE @]

\* The constructor (performance-optimizer.js:7-38) over a scene holding the
\* world's meshes, with the renderer as main.js sets it up.
OptInit(deviceRatios, streams, worlds) ==
    /\ lodEnabled = TRUE
    /\ frustumCullingEnabled = TRUE
    /\ lodDistances = InitialDistances
    /\ lodObjects = <<>>
    /\ meshes \in {[o \in w |-> [inScene |-> TRUE, visible |-> TRUE,
                                  originallyVisible |-> Undefined]] : w \in worlds}
    /\ viewAt = 0
    /\ viewFacing = 1
    /\ fpsHistory = <<>>
    /\ performanceStats = [averageFPS |-> initialAverageFPS,
                           visibleObjects |-> 0, culledObjects |-> 0]
    /\ devicePixelRatio \in deviceRatios
    /\ pixelRatio = Min(devicePixelRatio, maxInitialPixelRatio)
    /\ fpsStream \in streams
    /\ lodWrote = {}
    /\ cullWrote = {}
    /\ worldObjects = DOMAIN meshes
    /\ lodEvaluated = <<>>
    /\ adjusted = [ratio |-> FALSE, distances |-> FALSE]
    /\ sampled = <<0, 0>>
    /\ reducedDetail = NoDetail
    /\ sceneChildren = SceneOf(DOMAIN meshes)
    /\ cloneEntries = 0
    /\ optOp = <<"constructor", "">>

\* A plausible slip: the registry test left out, so a second call builds the
\* levels again.
createLODForObjectUnguarded(o) ==
    LET original == meshes[o]
        clone == [visible |-> original.visible,
                  originallyVisible |-> original.originallyVisible]
        l0 == addLevel(<<>>, Level("full", 0, clone.visible, clone.originallyVisible))
        l1 == IF Reducible(o)
              THEN addLevel(l0, Level("medium", lodDistances[1], clone.visible,
                                      clone.originallyVisible))
              ELSE l0
        l2 == IF Reducible(o)
              THEN addLevel(l1, Level("low", lodDistances[2], clone.visible,
                                      clone.originallyVisible))
              ELSE l1
        l3 == addLevel(l2, Level("impostor", lodDistances[3], TRUE, Undefined))
    IN  /\ lodObjects' = [u \in (DOMAIN lodObjects) \cup {o} |->
                             IF u = o THEN [levels |-> l3, current |-> 1]
                             ELSE lodObjects[u]]
        /\ meshes' = [meshes EXCEPT ![o].inScene = FALSE]
        /\ sceneChildren' = IF HasMesh(sceneChildren, o)
                            THEN Replace(sceneChildren, MeshIndex(sceneChildren, o),
                                         LodNode(o))
                            ELSE sceneChildren
        /\ optOp' = <<"createLODForObject", o>>
        /\ UNCHANGED <<lodEnabled, frustumCullingEnabled, lodDistances, viewAt,
                       viewFacing, fpsHistory, performanceStats, pixelRatio,
                       devicePixelRatio, fpsStream, lodWrote, cullWrote,
                       worldObjects, lodEvaluated, adjusted, sampled, cloneEntries>>
        /\ reducedDetail' = DetailOf(GeometryOf(o), 3, o # "statue")
        /\ UNCHANGED <<terrainVars, camVars, appVars, inspVars, worldVars>>

\* createLODForObject(object) for the world mesh o.  For a mesh that is in no
\* scene object.parent is null and object.parent.add(lod) throws before
\* anything is attached or registered.
createLODForObject(o) ==
    IF o \in DOMAIN lodObjects \/ ~meshes[o].inScene
    THEN /\ optOp' = <<"createLODForObject", o>>
         /\ UNCHANGED <<lodEnabled, frustumCullingEnabled, lodDistances, lodObjects,
                        meshes, viewAt, viewFacing, fpsHistory, performanceStats,
                        pixelRatio, devicePixelRatio, fpsStream, lodWrote, cullWrote,
                        worldObjects, lodEvaluated, adjusted, sampled,
                        sceneChildren, cloneEntries>>
         /\ reducedDetail' = IF o \in DOMAIN lodObjects THEN reducedDetail
                           ELSE DetailOf(GeometryOf(o), 3, o # "statue")
         /\ UNCHANGED <<terrainVars, camVars, appVars, inspVars, worldVars>>
    ELSE LET original == meshes[o]
             clone == [visible |-> original.visible,
                       originallyVisible |-> original.originallyVisible]
             l0 == addLevel(<<>>, Level("full", 0, clone.visible, clone.originallyVisible))
             l1 == IF Reducible(o)
                   THEN addLevel(l0, Level("medium", lodDistances[1], clone.visible,
                                           clone.originallyVisible))
                   ELSE l0
             l2 == IF Reducible(o)
                   THEN addLevel(l1, Level("low", lodDistances[2], clone.visible,
                                           clone.originallyVisible))
                   ELSE l1
             l3 == addLevel(l2, Level("impostor", lodDistances[3], TRUE, Undefined))
         IN  /\ lodObjects' = [u \in (DOMAIN lodObjects) \cup {o} |->
                                  IF u = o THEN [levels |-> l3, current |-> 1]
                                  ELSE lodObjects[u]]
             /\ meshes' = [meshes EXCEPT ![o].inScene = FALSE]
             /\ sceneChildren' = Replace(sceneChildren, MeshIndex(sceneChildren, o),
                                         LodNode(o))
             /\ optOp' = <<"createLODForObject", o>>
             /\ UNCHANGED <<lodEnabled, frustumCullingEnabled, lodDistances, viewAt,
                            viewFacing, fpsHistory, performanceStats, pixelRatio,
                            devicePixelRatio, fpsStream, lodWrote, cullWrote,
                            worldObjects, lodEvaluated, adjusted, sampled,
                            cloneEntries>>
             /\ reducedDetail' = DetailOf(GeometryOf(o), 3, o # "statue")
             /\ UNCHANGED <<terrainVars, camVars, appVars, inspVars, worldVars>>

\* The levels createLODForObject gives the LOD node of the world mesh o.
LevelsOf(o) ==
    LET l0 == addLevel(<<>>, Level("full", 0, meshes[o].visible,
                                   meshes[o].originallyVisible))
        l1 == IF Reducible(o)
              THEN addLevel(l0, Level("medium", lodDistances[1], meshes[o].visible,
                                      meshes[o].originallyVisible))
              ELSE l0
        l2 == IF Reducible(o)
              THEN addLevel(l1, Level("low", lodDistances[2], meshes[o].visible,
                                      meshes[o].originallyVisible))
              ELSE l1
    IN  addLevel(l2, Level("impostor", lodDistances[3], TRUE, Undefined))

\* forceLODUpdate(): scene.traverse with a callback that hands every
\* unregistered mesh with a type to createLODForObject.
forceLODUpdate ==
    LET r == TraverseFrom(sceneChildren, 1, Len(sceneChildren), 1, DOMAIN lodObjects)
    IN  /\ sceneChildren' = r.children
        /\ lodObjects' = [u \in (DOMAIN lodObjects) \cup r.top |->
                             IF u \in r.top THEN [levels |-> LevelsOf(u), current |-> 1]
                             ELSE lodObjects[u]]
        /\ meshes' = [o \in DOMAIN meshes |->
                         IF o \in r.top THEN [meshes[o] EXCEPT !.inScene = FALSE]
                         ELSE meshes[o]]
        /\ cloneEntries' = cloneEntries + r.clones
        /\ reducedDetail' = IF r.last = <<>> THEN reducedDetail
                            ELSE DetailOf(GeometryOf(r.last[1]), 3, r.last[1] # "statue")
        /\ optOp' = <<"forceLODUpdate", IF r.thrown THEN "RangeError" ELSE "">>
        /\ UNCHANGED <<lodEnabled, frustumCullingEnabled, lodDistances, viewAt,
                       viewFacing, fpsHistory, performanceStats, pixelRatio,
                       devicePixelRatio, fpsStream, lodWrote, cullWrote,
                       worldObjects, lodEvaluated, adjusted, sampled>>
        /\ UNCHANGED <<terrainVars, camVars, appVars, inspVars, worldVars>>

\* registerObject(type, object) and scene.add(object), as addTree, addRock,
\* addBuilding and addNPC share them; a rock is a mesh, the others are groups.
AddObject(type, interactive, npc) ==
    LET id == IdOf(type, objectIdCounter)
    IN  /\ objectIdCounter < MaxObjects
        /\ objectIdCounter' = objectIdCounter + 1
        /\ worldObjects' = worldObjects \cup {id}
        /\ interactiveObjects' = IF interactive THEN Append(interactiveObjects, id)
                                 ELSE interactiveObjects
        /\ npcs' = IF npc THEN Append(npcs, id) ELSE npcs
        /\ sceneChildren' = Append(sceneChildren,
                                   IF type = "rock" THEN MeshNode(id, "")
                                   ELSE GroupNode(id))
        /\ meshes' = IF type = "rock"
                     THEN [o \in (DOMAIN meshes) \cup {id} |->
                              IF o = id
                              THEN [inScene |-> TRUE, visible |-> TRUE,
                                    originallyVisible |-> Undefined]
                              ELSE meshes[o]]
                     ELSE meshes
        /\ UNCHANGED <<lodEnabled, frustumCullingEnabled, lodDistances, lodObjects,
                       viewAt, viewFacing, fpsHistory, performanceStats, pixelRatio,
                       devicePixelRatio, fpsStream, lodWrote, cullWrote,
                       lodEvaluated, adjusted, sampled, reducedDetail, cloneEntries>>
        /\ UNCHANGED <<terrainVars, camVars, appVars, inspVars>>

\* WorldManager.addTree.
addTree ==
    /\ AddObject("tree", FALSE, FALSE)
    /\ optOp' = <<"addTree", "">>

\* WorldManager.addRock.
addRock ==
    /\ AddObject("rock", FALSE, FALSE)
    /\ optOp' = <<"addRock", "">>

\* WorldManager.addBuilding: the group is pushed onto interactiveObjects.
addBuilding ==
    /\ AddObject("building", TRUE, FALSE)
    /\ optOp' = <<"addBuilding", "">>

\* WorldManager.addNPC: the group is pushed onto interactiveObjects and npcs.
addNPC ==
    /\ AddObject("npc", TRUE, TRUE)
    /\ optOp' = <<"addNPC", "">>

\* The LOD nodes after updateLOD and updateFrustumCulling have run for a
\* camera at the place at, facing the way facing.
LodsAfterPasses(at, facing) ==
    LET lods1 == IF lodEnabled THEN updateLOD(lodObjects, at) ELSE lodObjects
    IN  IF frustumCullingEnabled THEN CullLods(lods1, at, facing) ELSE lods1

\* update(deltaTime) of the optimizer for a frame delivered at fps frames per
\* second, reading the camera at the place at, facing the way facing: the
\* sample, updateLOD, updateFrustumCulling, adaptiveQuality, as they change
\* everything of the optimizer's but the LOD nodes.
OptimizerUpdate(fps, at, facing) ==
    LET lods1 == IF lodEnabled THEN updateLOD(lodObjects, at) ELSE lodObjects
        counts == CullCounts(meshes, lods1, at, facing)
    IN  /\ Len(fpsHistory) < MaxFrames
        /\ fpsHistory' = Append(fpsHistory, fps)
        /\ meshes' = IF frustumCullingEnabled
                     THEN CullMeshes(meshes, at, facing) ELSE meshes
        /\ performanceStats' =
               IF frustumCullingEnabled
               THEN [performanceStats EXCEPT !.visibleObjects = counts.visible,
                                             !.culledObjects = counts.culled]
               ELSE performanceStats
        /\ pixelRatio' = AdaptPixelRatio(performanceStats.averageFPS, pixelRatio,
                                         devicePixelRatio)
        /\ lodDistances' = AdaptDistances(performanceStats.averageFPS, lodDistances)
        /\ lodWrote' = IF lodEnabled
                       THEN {n \in SceneNodes(meshes, lodObjects) :
                                n[2] > 0 /\ Len(lodObjects[n[1]].levels) > 1}
                       ELSE {}
        /\ cullWrote' = IF frustumCullingEnabled
                        THEN SceneNodes(meshes, lodObjects) ELSE {}
        /\ adjusted' = [ratio |-> adjusted.ratio \/ pixelRatio' # pixelRatio,
                        distances |-> adjusted.distances \/ lodDistances' # lodDistances]
        /\ optOp' = <<"update", "">>
        /\ UNCHANGED <<lodEnabled, frustumCullingEnabled, devicePixelRatio, fpsStream,
                       worldObjects, sampled, reducedDetail, sceneChildren,
                       cloneEntries>>

\* performanceOptimizer.update(deltaTime), called on its own.
optimizerUpdate(fps) ==
    /\ OptimizerUpdate(fps, viewAt, viewFacing)
    /\ lodObjects' = LodsAfterPasses(viewAt, viewFacing)
    /\ lodEvaluated' = IF lodEnabled
                       THEN [o \in DOMAIN lodObjects |-> Distance(o)]
                       ELSE lodEvaluated
    /\ UNCHANGED <<viewAt, viewFacing>>
    /\ UNCHANGED <<terrainVars, camVars, appVars, inspVars, worldVars>>

\* updatePerformanceStats(), run by the 1-second interval timer.
updatePerformanceStats ==
    /\ IF Len(fpsHistory) > 0
       THEN /\ performanceStats' =
                   [performanceStats EXCEPT !.averageFPS = MeanFPS(fpsHistory)]
            /\ fpsHistory' = <<>>
            /\ sampled' = <<Sum(fpsHistory), Len(fpsHistory)>>
       ELSE UNCHANGED <<performanceStats, fpsHistory, sampled>>
    /\ adjusted' = [ratio |-> FALSE, distances |-> FALSE]
    /\ optOp' = <<"updatePerformanceStats", "">>
    /\ UNCHANGED <<lodEnabled, frustumCullingEnabled, lodDistances, lodObjects, meshes,
                   viewAt, viewFacing, pixelRatio, devicePixelRatio, fpsStream,
                   lodWrote, cullWrote,
                   worldObjects, lodEvaluated, reducedDetail, sceneChildren,
                   cloneEntries>>
    /\ UNCHANGED <<terrainVars, camVars, appVars, inspVars, worldVars>>

\* The restore loop of toggleOptimization('culling', false) on one node.
RestoreNode(node) ==
    IF node.originallyVisible # Undefined
    THEN [node EXCEPT !.visible = node.originallyVisible[1]]
    ELSE node

\* toggleOptimization(type, enabled).
toggleOptimization(type, enabled) ==
    /\ IF type = "lod"
       THEN /\ lodEnabled' = enabled
            /\ UNCHANGED <<frustumCullingEnabled, meshes, lodObjects>>
       ELSE /\ frustumCullingEnabled' = enabled
            /\ UNCHANGED lodEnabled
            /\ IF ~enabled
               THEN /\ meshes' = [o \in DOMAIN meshes |->
                                     IF meshes[o].inScene THEN RestoreNode(meshes[o])
                                     ELSE meshes[o]]
                    /\ lodObjects' =
                           [o \in DOMAIN lodObjects |->
                               [lodObjects[o] EXCEPT !.levels =
                                   [k \in 1 .. Len(lodObjects[o].levels) |->
                                       RestoreNode(lodObjects[o].levels[k])]]]
               ELSE UNCHANGED <<meshes, lodObjects>>
    /\ optOp' = <<"toggleOptimization", type>>
    /\ UNCHANGED <<lodDistances, viewAt, viewFacing, fpsHistory, performanceStats,
                   pixelRatio, devicePixelRatio, fpsStream, lodWrote, cullWrote,
                   worldObjects, lodEvaluated, adjusted, sampled, reducedDetail,
                   sceneChildren, cloneEntries>>
    /\ UNCHANGED <<terrainVars, camVars, appVars, inspVars, worldVars>>

\* The camera controller's updateCamera has put the camera somewhere else.
cameraMoved(at, facing) ==
    /\ <<at, facing>> # <<viewAt, viewFacing>>
    /\ viewAt' = at
    /\ viewFacing' = facing
    /\ optOp' = <<"cameraMoved", "">>
    /\ UNCHANGED <<lodEnabled, frustumCullingEnabled, lodDistances, lodObjects, meshes,
                   fpsHistory, performanceStats, pixelRatio, devicePixelRatio,
                   fpsStream, lodWrote, cullWrote,
                   worldObjects, lodEvaluated, adjusted, sampled, reducedDetail,
                   sceneChildren, cloneEntries>>
    /\ UNCHANGED <<terrainVars, camVars, appVars, inspVars, worldVars>>

\* The scene's author sets object.visible on a world mesh in the scene.
setVisible(o, v) ==
    /\ meshes[o].inScene
    /\ meshes[o].visible # v
    /\ meshes' = [meshes EXCEPT ![o].visible = v]
    /\ optOp' = <<IF v THEN "show" ELSE "hide", o>>
    /\ UNCHANGED <<lodEnabled, frustumCullingEnabled, lodDistances, lodObjects,
                   viewAt, viewFacing, fpsHistory, performanceStats, pixelRatio,
                   devicePixelRatio, fpsStream, lodWrote, cullWrote,
                   worldObjects, lodEvaluated, adjusted, sampled, reducedDetail,
                   sceneChildren, cloneEntries>>
    /\ UNCHANGED <<terrainVars, camVars, appVars, inspVars, worldVars>>

\* WorldManager.removeObject(id) for the id o.
removeObject(o) ==
    /\ IF o \in worldObjects
       THEN /\ meshes' = IF o \in DOMAIN meshes
                         THEN [meshes EXCEPT ![o].inScene = FALSE]
                         ELSE meshes
            /\ worldObjects' = worldObjects \ {o}
            /\ sceneChildren' = IF HasObject(sceneChildren, o)
                                THEN Remove(sceneChildren, ObjectIndex(sceneChildren, o))
                                ELSE sceneChildren
            /\ interactiveObjects' = SpliceOut(interactiveObjects, o)
            /\ npcs' = SpliceOut(npcs, o)
       ELSE UNCHANGED <<meshes, worldObjects, sceneChildren, interactiveObjects, npcs>>
    /\ optOp' = <<"removeObject", o>>
    /\ UNCHANGED objectIdCounter
    /\ UNCHANGED <<lodEnabled, frustumCullingEnabled, lodDistances, lodObjects,
                   viewAt, viewFacing, fpsHistory, performanceStats, pixelRatio,
                   devicePixelRatio, fpsStream, lodWrote, cullWrote, lodEvaluated,
                   adjusted, sampled, reducedDetail, cloneEntries>>
    /\ UNCHANGED <<terrainVars, camVars, appVars, inspVars>>

\* The constructor of WorldManager (performance-optimizer.js:566-589), before
\* anything is added.
WorldInit ==
    /\ interactiveObjects = <<>>
    /\ npcs = <<>>
    /\ objectIdCounter = 0

(***************************************************************************)
(* VirtualWorld: the render loop and the pause switch                      *)
(*                                                                         *)
(* In the loop the scene's viewing axis is the world's z axis: the camera  *)
(* stands at cameraPosition.z and, with a yaw of 0, looks down the axis.   *)
(***************************************************************************)

AxisOf(p) == p.z
AxisFacing(q) == Direction(q).z

\* The place the optimizer's passes read the camera at, from camera.matrixWorld
\* and camera.matrixWorldInverse.  These are brought up to date from
\* camera.position by renderer.render, by camera.getWorldDirection (called by
\* updateMovement in first person, before the player moves) and by
\* camera.lookAt (called by updateCamera in third person, after the camera
\* has been put in its new place). before and after are camera.position
\* before and after the controller's update.
PoseReadInFrame(first, before, after) ==
    IF first THEN AxisOf(before) ELSE AxisOf(after)

\* A plausible slip: the pause test left out of the loop.
animateUnpaused(deltaTime, fps) ==
    /\ CameraUpdate(deltaTime)
    /\ LET at == PoseReadInFrame(isFirstPerson, cameraPosition, cameraPosition')
           facing == AxisFacing(cameraLook.yaw)
       IN  /\ OptimizerUpdate(fps, at, facing)
           /\ lodObjects' = IF lodEnabled
                            THEN updateLOD(LodsAfterPasses(at, facing),
                                           AxisOf(cameraPosition'))
                            ELSE LodsAfterPasses(at, facing)
           /\ lodEvaluated' = [o \in DOMAIN lodObjects |->
                                  Abs(AxisOf(cameraPosition') - ObjectAt(o))]
           /\ poseRead' = at
    /\ viewAt' = AxisOf(cameraPosition')
    /\ viewFacing' = AxisFacing(cameraLook'.yaw)
    /\ appOp' = <<"animate", 1 - appOp[2]>>
    /\ UNCHANGED <<isPaused, pauseRequested, documentHidden>>
    /\ UNCHANGED <<terrainVars, inspVars, worldVars>>

\* The animation callback of startRenderLoop for a frame deltaTime after the
\* last, delivered at fps frames per second: unless paused, update (the
\* camera controller, then the optimizer) and render.  renderer.render brings
\* the camera's matrices up to date and runs lod.update(camera) on every LOD
\* node it meets (THREE.LOD.autoUpdate).
animate(deltaTime, fps) ==
    IF isPaused
    THEN /\ appOp' = <<"animate", 1 - appOp[2]>>
         /\ UNCHANGED <<isPaused, poseRead, pauseRequested, documentHidden>>
         /\ UNCHANGED <<terrainVars, camVars, optVars, inspVars, worldVars>>
    ELSE /\ CameraUpdate(deltaTime)
         /\ LET at == PoseReadInFrame(isFirstPerson, cameraPosition, cameraPosition')
                facing == AxisFacing(cameraLook.yaw)
            IN  /\ OptimizerUpdate(fps, at, facing)
                /\ lodObjects' = updateLOD(LodsAfterPasses(at, facing),
                                           AxisOf(cameraPosition'))
                /\ lodEvaluated' = [o \in DOMAIN lodObjects |->
                                       Abs(AxisOf(cameraPosition') - ObjectAt(o))]
                /\ poseRead' = at
         /\ viewAt' = AxisOf(cameraPosition')
         /\ viewFacing' = AxisFacing(cameraLook'.yaw)
         /\ appOp' = <<"animate", 1 - appOp[2]>>
         /\ UNCHANGED <<isPaused, pauseRequested, documentHidden>>
         /\ UNCHANGED <<terrainVars, inspVars, worldVars>>

\* togglePause(), pause() and resume(): pause and resume are also what the
\* visibilitychange listener calls when the page is hidden and shown.
togglePause ==
    /\ isPaused' = ~isPaused
    /\ pauseRequested' = ~isPaused
    /\ appOp' = <<"togglePause", appOp[2]>>
    /\ UNCHANGED <<poseRead, documentHidden>>
    /\ UNCHANGED <<terrainVars, camVars, optVars, inspVars, worldVars>>

pause ==
    /\ isPaused' = TRUE
    /\ appOp' = <<"pause", appOp[2]>>
    /\ UNCHANGED <<poseRead, pauseRequested, documentHidden>>
    /\ UNCHANGED <<terrainVars, camVars, optVars, inspVars, worldVars>>

resume ==
    /\ isPaused' = FALSE
    /\ appOp' = <<"resume", appOp[2]>>
    /\ UNCHANGED <<poseRead, pauseRequested, documentHidden>>
    /\ UNCHANGED <<terrainVars, camVars, optVars, inspVars, worldVars>>

\* The visibilitychange listener, the page having become hidden or visible:
\* pause() when document.hidden, resume() otherwise.
onVisibilityChange(hidden) ==
    /\ hidden # documentHidden
    /\ documentHidden' = hidden
    /\ isPaused' = hidden
    /\ appOp' = <<"visibilitychange", appOp[2]>>
    /\ UNCHANGED <<poseRead, pauseRequested>>
    /\ UNCHANGED <<terrainVars, camVars, optVars, inspVars, worldVars>>

\* VirtualWorld as its constructor and init leave it.
AppInit ==
    /\ isPaused = FALSE
    /\ poseRead = 0
    /\ appOp = <<"init", 0>>
    /\ pauseRequested = FALSE
    /\ documentHidden = FALSE

\* MeshInspector as its constructor leaves it.
InspInit ==
    /\ isEnabled = FALSE
    /\ selectedObject = <<>>
    /\ helpers = [vertex |-> FALSE, normal |-> FALSE, boundingBox |-> FALSE]
    /\ inspOp = <<"constructor", "">>

(***************************************************************************)
(* MeshInspector                                                           *)
(***************************************************************************)

\* The keys the inspector's keydown listener tells apart, one it does not,
\* and the objects a click on the canvas can hit.
InspectorCodes == {"KeyI", "KeyV", "KeyN", "KeyB", "Escape", "KeyW"}
Pickable == {"rock", "terrain"}
NoObject == <<>>
NoHelpers == [vertex |-> FALSE, normal |-> FALSE, boundingBox |-> FALSE]

\* clearHelpers(): clearVertexHelper, clearNormalHelper, clearBoundingBoxHelper.
\* The normal helper is a THREE.LineSegments, which has no dispose method:
\* clearNormalHelper throws at this.normalHelper.dispose() before it sets
\* the field to null, and the bounding box helper is not reached.
ClearHelpersThrows(h) == h.normal
clearHelpers(h) ==
    IF ClearHelpersThrows(h)
    THEN [vertex |-> FALSE, normal |-> TRUE, boundingBox |-> h.boundingBox]
    ELSE NoHelpers

\* selectObject(object): deselectObject, then the new selection; when
\* deselectObject throws, the old selection is gone and the new one not made.
SelectedAfterSelect(h, o) == IF ClearHelpersThrows(h) THEN NoObject ELSE <<o>>

\* toggleVertexDisplay, toggleNormalDisplay, toggleBoundingBox.
ToggleHelper(sel, h, code) ==
    IF sel = NoObject THEN h
    ELSE IF code = "KeyV" THEN [h EXCEPT !.vertex = ~h.vertex]
    ELSE IF code = "KeyN" THEN [h EXCEPT !.normal = TRUE]
    ELSE [h EXCEPT !.boundingBox = ~h.boundingBox]

\* toggleEnabled(): also what the page's console is told to call.
toggleEnabled ==
    /\ isEnabled' = ~isEnabled
    /\ selectedObject' = IF isEnabled THEN NoObject ELSE selectedObject
    /\ helpers' = IF isEnabled THEN clearHelpers(helpers) ELSE helpers
    /\ inspOp' = <<"toggleEnabled", "">>
    /\ UNCHANGED <<terrainVars, camVars, optVars, appVars, worldVars>>

\* onKeyDown(event) of the inspector, for event.code = code.
inspectorOnKeyDown(code) ==
    IF ~isEnabled
    THEN /\ inspOp' = <<"keydown", code>>
         /\ UNCHANGED <<isEnabled, selectedObject, helpers>>
         /\ UNCHANGED <<terrainVars, camVars, optVars, appVars, worldVars>>
    ELSE /\ isEnabled' = IF code = "KeyI" THEN FALSE ELSE isEnabled
         /\ selectedObject' = IF code \in {"KeyI", "Escape"}
                              THEN NoObject ELSE selectedObject
         /\ helpers' = IF code \in {"KeyI", "Escape"}
                       THEN clearHelpers(helpers)
                       ELSE IF code \in {"KeyV", "KeyN", "KeyB"}
                       THEN ToggleHelper(selectedObject, helpers, code)
                       ELSE helpers
         /\ inspOp' = <<"keydown", code>>
         /\ UNCHANGED <<terrainVars, camVars, optVars, appVars, worldVars>>

\* onMouseClick(event): onCanvas is event.target.tagName = 'CANVAS', hit is
\* the first object the ray meets, NoObject when it meets none.
onMouseClick(onCanvas, hit) ==
    /\ IF ~isEnabled \/ ~onCanvas
       THEN UNCHANGED <<selectedObject, helpers>>
       ELSE /\ selectedObject' = IF hit = NoObject THEN NoObject
                                 ELSE SelectedAfterSelect(helpers, hit[1])
            /\ helpers' = clearHelpers(helpers)
    /\ inspOp' = <<"click", IF onCanvas THEN "canvas" ELSE "page">>
    /\ UNCHANGED isEnabled
    /\ UNCHANGED <<terrainVars, camVars, optVars, appVars, worldVars>>

\* The optimizer as the other specifications hold it: built, never run.
OptIdle == OptInit({One}, {{60}}, {{"rock"}})

(***************************************************************************)
(* Specifications                                                          *)
(***************************************************************************)

\* The terrain alone: generation, then height queries.
InitTerrain ==
    /\ heightData = <<>>
    /\ heightResult = NoResult
    /\ CamConstructed
    /\ OptIdle
    /\ AppInit
    /\ InspInit
    /\ WorldInit

NextTerrain ==
    \/ \E g \in Grids : generateTerrain(g)
    \/ \E x \in QueryCoords, z \in QueryCoords : GetHeightAtCall(x, z)

SpecTerrain == InitTerrain /\ [][NextTerrain]_vars

\* The camera controller over a generated terrain.
InitCam ==
    /\ heightData \in {<<g>> : g \in Grids}
    /\ heightResult = NoResult
    /\ CamInit
    /\ OptIdle
    /\ AppInit
    /\ InspInit
    /\ WorldInit

NextCam ==
    \/ \E c \in CamKeyCodes : onKeyDown(c)
    \/ \E c \in CamKeyCodes : onKeyUp(c)
    \/ \E dt \in DeltaTimes : update(dt)
    \/ \E p \in SetPositionTargets : setPosition(p)
    \/ \E t \in TeleportTargets : teleportTo(t[1], t[2])
    \/ toggleMode
    \/ \E q \in Yaws : setRotation(q, 0)

SpecCam == InitCam /\ [][NextCam]_vars

\* createReducedDetail over the geometries and the two detail levels.
InitDetail ==
    /\ heightData \in {<<g>> : g \in {0}}
    /\ heightResult = NoResult
    /\ CamInit
    /\ OptIdle
    /\ AppInit
    /\ InspInit
    /\ WorldInit

NextDetail ==
    \E g \in Geometries, f \in DetailLevels : createReducedDetail(g, f)

SpecDetail == InitDetail /\ [][NextDetail]_vars

\* The camera controller moved by the keys at a level and at a steep pitch.
InitMove ==
    /\ heightData \in {<<g>> : g \in {0}}
    /\ heightResult = NoResult
    /\ CamInit
    /\ OptIdle
    /\ AppInit
    /\ InspInit
    /\ WorldInit

NextMove ==
    \/ \E c \in KeyCodes : onKeyDown(c)
    \/ \E c \in KeyCodes : onKeyUp(c)
    \/ \E dt \in DeltaTimes : update(dt)
    \/ \E p \in Pitches : setRotation(0, p)
    \/ toggleMode

SpecMove == InitMove /\ [][NextMove]_vars

\* The camera controller turned by the mouse and by setRotation.
InitLook ==
    /\ heightData \in {<<g>> : g \in Grids}
    /\ heightResult = NoResult
    /\ CamInit
    /\ OptIdle
    /\ AppInit
    /\ InspInit
    /\ WorldInit

NextLook ==
    \/ \E m \in MouseMoves : onMouseMove(m[1], m[2])
    \/ \E q \in Yaws, p \in Pitches : setRotation(q, p)
    \/ \E b \in BOOLEAN : onPointerLockChange(b)
    \/ toggleMode
    \/ \E dt \in DeltaTimes : update(dt)

SpecLook == InitLook /\ [][NextLook]_vars

\* The render loop over a world of one rock, with the W key, the mode
\* switch, teleports along the viewing axis and the pause switch.
LoopKeyCodes == {"KeyW"}
LoopTeleports == {<<0, 60>>}
FrameTimes == {20}

InitLoop ==
    /\ heightData \in {<<g>> : g \in {0}}
    /\ heightResult = NoResult
    /\ CamInit
    /\ OptInit({One}, {{60}}, {{"rock"}})
    /\ AppInit
    /\ InspInit
    /\ WorldInit

NextLoop ==
    \/ \E dt \in FrameTimes, f \in fpsStream : animate(dt, f)
    \/ updatePerformanceStats
    \/ \E c \in LoopKeyCodes : onKeyDown(c)
    \/ \E c \in LoopKeyCodes : onKeyUp(c)
    \/ \E t \in LoopTeleports : teleportTo(t[1], t[2])
    \/ toggleMode
    \/ \E o \in DOMAIN meshes : createLODForObject(o)
    \/ togglePause
    \/ pause
    \/ resume

SpecLoop == InitLoop /\ [][NextLoop]_vars

\* The inspector under its two listeners and toggleEnabled.
InitInspector ==
    /\ heightData \in {<<g>> : g \in {0}}
    /\ heightResult = NoResult
    /\ CamInit
    /\ OptIdle
    /\ AppInit
    /\ InspInit
    /\ WorldInit

NextInspector ==
    \/ toggleEnabled
    \/ \E c \in InspectorCodes : inspectorOnKeyDown(c)
    \/ \E onCanvas \in BOOLEAN, hit \in {NoObject} \cup {<<o>> : o \in Pickable} :
          onMouseClick(onCanvas, hit)

SpecInspector == InitInspector /\ [][NextInspector]_vars

\* The optimizer over a small scene, on a display of pixel ratio 1.
SceneStreams == {{20}, {60}}

Init ==
    /\ heightData \in {<<g>> : g \in {0}}
    /\ heightResult = NoResult
    /\ CamInit
    /\ OptInit({One}, SceneStreams, Worlds)
    /\ AppInit
    /\ InspInit
    /\ WorldInit

Next ==
    \/ \E f \in fpsStream : optimizerUpdate(f)
    \/ updatePerformanceStats
    \/ \E o \in DOMAIN meshes : createLODForObject(o)
    \/ \E v \in Views : cameraMoved(v[1], v[2])
    \/ \E o \in DOMAIN meshes, v \in BOOLEAN : setVisible(o, v)
    \/ \E o \in DOMAIN meshes : removeObject(o)

Spec == Init /\ [][Next]_vars

\* The optimizer with its switches operated, over one world at a steady
\* frame rate.
InitSwitches ==
    /\ heightData \in {<<g>> : g \in {0}}
    /\ heightResult = NoResult
    /\ CamInit
    /\ OptInit({One}, {{60}}, {{"rock"}})
    /\ AppInit
    /\ InspInit
    /\ WorldInit

NextSwitches ==
    \/ \E f \in fpsStream : optimizerUpdate(f)
    \/ updatePerformanceStats
    \/ \E o \in DOMAIN meshes : createLODForObject(o)
    \/ \E t \in {"lod", "culling"}, e \in BOOLEAN : toggleOptimization(t, e)
    \/ \E v \in Views : cameraMoved(v[1], v[2])

SpecSwitches == InitSwitches /\ [][NextSwitches]_vars

\* forceLODUpdate over the worlds, with trees added to the scene, objects
\* registered one by one and removed, and the camera moved about.
InitForce ==
    /\ heightData \in {<<g>> : g \in {0}}
    /\ heightResult = NoResult
    /\ CamInit
    /\ OptInit({One}, {{60}}, Worlds)
    /\ AppInit
    /\ InspInit
    /\ WorldInit

NextForce ==
    \/ forceLODUpdate
    \/ addTree
    \/ \E o \in DOMAIN meshes : createLODForObject(o)
    \/ \E o \in DOMAIN meshes : removeObject(o)
    \/ \E v \in Views : cameraMoved(v[1], v[2])

SpecForce == InitForce /\ [][NextForce]_vars

\* WorldManager's registry: objects added and removed.
InitWorld ==
    /\ heightData \in {<<g>> : g \in {0}}
    /\ heightResult = NoResult
    /\ CamInit
    /\ OptIdle
    /\ AppInit
    /\ InspInit
    /\ WorldInit

NextWorld ==
    \/ addTree
    \/ addRock
    \/ addBuilding
    \/ addNPC
    \/ \E o \in AllIds \cup DOMAIN meshes : removeObject(o)

SpecWorld == InitWorld /\ [][NextWorld]_vars

\* The pause switch: frames, the P key, and the page hidden and shown.
InitPause ==
    /\ heightData \in {<<g>> : g \in {0}}
    /\ heightResult = NoResult
    /\ CamInit
    /\ OptIdle
    /\ AppInit
    /\ InspInit
    /\ WorldInit

NextPause ==
    \/ \E dt \in FrameTimes, f \in fpsStream : animate(dt, f)
    \/ updatePerformanceStats
    \/ \E c \in LoopKeyCodes : onKeyDown(c)
    \/ \E c \in LoopKeyCodes : onKeyUp(c)
    \/ togglePause
    \/ \E h \in BOOLEAN : onVisibilityChange(h)

SpecPause == InitPause /\ [][NextPause]_vars

\* The quality loop alone, on displays of several pixel ratios and under
\* several frame-rate streams.
DevicePixelRatios == {250000, One, 1500000, 3000000}
Streams == {{20}, {45}, {60}, {28, 45}, {24, 25}}

InitQuality ==
    /\ heightData \in {<<g>> : g \in {0}}
    /\ heightResult = NoResult
    /\ CamInit
    /\ OptInit(DevicePixelRatios, Streams, {{"rock"}})
    /\ AppInit
    /\ InspInit
    /\ WorldInit

NextQuality ==
    \/ \E f \in fpsStream : optimizerUpdate(f)
    \/ updatePerformanceStats

SpecQuality == InitQuality /\ [][NextQuality]_vars

(***************************************************************************)
(* Claims about the camera controller (checked under SpecCam)              *)
(***************************************************************************)

\* The least height the camera may have over the ground at p.
FloorAt(p) == getHeightAt(heightData, p.x, p.z) + eyeHeight

\* C5: in every reachable state of the camera controller the tracked position
\* is at least eyeHeight above the terrain:
\* position.y >= getHeightAt(position.x, position.z) + 2.
C5_PositionNeverBelowFloor ==
    position.y >= FloorAt(position)

\* C6, as claimed: after an update with no intent held (and no scene object
\* under the camera) position.y is exactly the terrain height plus 2.
C6_UpdateSettlesAtFloor ==
    (camOp = "update" /\ keys = NoKeys /\ SurfacesAt(position.x, position.z) = {})
        => position.y = FloorAt(position)

\* C6, amended: an update with no intent held keeps x and z, never lowers
\* position.y and leaves it at or above the terrain height plus 2; with no
\* scene object under the camera position.y becomes max(position.y, h + 2).
C6_UpdateClampsFromBelow ==
    [][(camOp' = "update" /\ keys = NoKeys) =>
            /\ position'.x = position.x
            /\ position'.z = position.z
            /\ position'.y >= position.y
            /\ position'.y >= FloorAt(position)
            /\ (SurfacesAt(position.x, position.z) = {}
                    => position'.y = Max(position.y, FloorAt(position)))]_vars

\* C6's case: the camera was put at (0, 10, 0) over terrain of height 3 and an
\* update ran with no intent held; it is still at height 10.
C6_Witness ==
    /\ camOp = "update"
    /\ keys = NoKeys
    /\ getHeightAt(heightData, 0, 0) = 3
    /\ position = Vec(0, 10, 0)

\* What the object-collision step would leave position.y at if only the
\* nearest hit of the probe counted, for the position p the movement gave.
NearestHitOnly(hd, p) ==
    LET minHeight == getHeightAt(hd, p.x, p.z) + eyeHeight
        y == IF p.y < minHeight THEN minHeight ELSE p.y
        hits == SortedHits(ProbeHits(hd, Vec(p.x, y, p.z)))
    IN  IF hits # <<>> /\ hits[1] < eyeHeight THEN (y - hits[1]) + eyeHeight ELSE y

\* C22, as claimed: the update leaves position.y where the nearest
\* non-terrain hit of the downward probe puts it: at that hit's height plus
\* 2 when the hit is nearer than 2, and where the terrain step left it
\* otherwise; no farther hit counts.
C22_NearestHitDecides ==
    [][camOp' = "update" =>
          \E dt \in DeltaTimes :
              LET d == IF dt > maxDeltaTime THEN maxDeltaTime ELSE dt
                  moved == VecAdd(position, Velocity(keys, MoveYaw, MovePitch, Speed(keys, d)))
              IN  /\ position'.x = moved.x
                  /\ position'.z = moved.z
                  /\ position'.y = NearestHitOnly(heightData, moved)]_vars

\* C23: after an update velocity.y is speed when the up intent is held (the
\* down intent held or not), -speed when only down is held, and 0 when
\* neither is, speed being moveSpeed x (run ? runMultiplier : 1) x deltaTime
\* with deltaTime, one of the frame times the controller is run with, no
\* more than 0.1 s; the forward intent and the pitch of the view have no
\* part in it.
C23_VerticalVelocity ==
    [][camOp' = "update" =>
          \E dt \in DeltaTimes :
              LET d == IF dt > maxDeltaTime THEN maxDeltaTime ELSE dt
                  speed == (moveSpeed * (IF keys.run THEN runMultiplier ELSE 1) * d)
                               \div 1000
              IN  velocity'.y = IF keys.up THEN speed
                                ELSE IF keys.down THEN -speed
                                ELSE 0]_vars

\* C23's case: an update has run with up, down, forward and run all held and
\* the view pitched steeply up, and has left velocity.y at the running speed.
C23_Witness ==
    /\ camOp = "update"
    /\ keys.up /\ keys.down /\ keys.forward /\ keys.run
    /\ MovePitch = 15000
    /\ velocity.y = 2

\* C11, as claimed: in every reachable state the pitch euler.x lies within
\* minPolarAngle - pi/2 and maxPolarAngle - pi/2.
C11_PitchWithinPolarBounds ==
    /\ pitch >= minPolarAngle - halfPi
    /\ pitch <= maxPolarAngle - halfPi

(***************************************************************************)
(* Claims about the render loop (checked under SpecLoop)                   *)
(***************************************************************************)

\* C15, as claimed: in every frame the optimizer's passes run after the
\* controller's update and take the camera to be where that update has just
\* put it.
C15_PassesReadThisFramesPose ==
    (appOp[1] = "animate" /\ ~isPaused /\ camOp = "update" /\ optOp = <<"update", "">>)
        => poseRead = AxisOf(cameraPosition)

\* C16: a frame delivered while the application is paused changes nothing:
\* not the camera or the player's position, not a visible flag of a mesh or
\* of a LOD level, not the FPS samples, not the pixel ratio.
C16_NoFrameWhilePaused ==
    [][(isPaused /\ appOp'[1] = "animate" /\ appOp'[2] # appOp[2]) =>
          /\ UNCHANGED <<position, cameraPosition, cameraLook>>
          /\ UNCHANGED <<meshes, lodObjects, fpsHistory, performanceStats>>
          /\ UNCHANGED <<pixelRatio, lodDistances, isPaused>>]_vars

\* C16's case: a frame has been delivered while paused, with the W key held
\* and a LOD node registered: the frame before the pause had moved the player.
C16_Witness ==
    /\ isPaused
    /\ appOp[1] = "animate"
    /\ keys.forward
    /\ position.z # 0
    /\ lodObjects # <<>>

\* C30: when the page becomes visible again while a pause the user asked
\* for is in force, the application stays paused.
C30_UserPauseOutlastsHiding ==
    [][(pauseRequested /\ isPaused /\ documentHidden /\ ~documentHidden') =>
          isPaused']_vars

(***************************************************************************)
(* Claims about the inspector (checked under SpecInspector)                *)
(***************************************************************************)

\* C20, as claimed: a keydown of the I key makes an inactive inspector
\* active, and makes an active one inactive and leaves nothing selected.
C20_KeyITogglesBothWays ==
    [][inspOp' = <<"keydown", "KeyI">> =>
          /\ ~isEnabled => isEnabled'
          /\ isEnabled => ~isEnabled' /\ selectedObject' = NoObject]_vars

(***************************************************************************)
(* Claims about the optimizer's scene passes (checked under Spec)          *)
(***************************************************************************)

\* The representations of the registered object o that are visible.
VisibleLevels(o) ==
    {k \in 1 .. Len(lodObjects[o].levels) : lodObjects[o].levels[k].visible}

\* The level of a node whose own distance is the largest one not beyond dist.
DueLevel(levels, dist) ==
    CHOOSE k \in 1 .. Len(levels) :
        /\ levels[k].distance <= dist
        /\ \A j \in 1 .. Len(levels) :
               levels[j].distance <= dist => levels[j].distance <= levels[k].distance

\* The threshold the optimizer's distances give a representation of a kind.
ThresholdOf(kind, distances) ==
    CASE kind = "full" -> 0
      [] kind = "medium" -> distances[1]
      [] kind = "low" -> distances[2]
      [] kind = "impostor" -> distances[3]

\* The level due at dist when every level is measured against distances.
DueLevelUnder(levels, distances, dist) ==
    CHOOSE k \in 1 .. Len(levels) :
        /\ ThresholdOf(levels[k].kind, distances) <= dist
        /\ \A j \in 1 .. Len(levels) :
               ThresholdOf(levels[j].kind, distances) <= dist
                   => ThresholdOf(levels[j].kind, distances)
                          <= ThresholdOf(levels[k].kind, distances)

\* C1, as claimed: after a frame update with LOD enabled, every registered
\* object has exactly one representation visible, the one whose distance is
\* the largest threshold not beyond the camera distance.  Read in the claim's
\* favour: only objects inside the frustum are held to it, and each level is
\* measured against the distance it was added with.
C1_ExactlyTheDueLevelVisible ==
    (optOp[1] = "update" /\ lodEnabled) =>
        \A o \in DOMAIN lodObjects :
            IntersectsFrustum(o, viewAt, viewFacing) =>
                VisibleLevels(o) = {DueLevel(lodObjects[o].levels, Distance(o))}

\* C2, as claimed: the level updateLOD chooses for a registered object is the
\* one due under the lodDistances in force when the frame starts, whatever
\* the distances were when the object was registered.
C2_LevelFollowsCurrentDistances ==
    [][(optOp' = <<"update", "">> /\ lodEnabled) =>
          \A o \in DOMAIN lodObjects :
              lodObjects'[o].current =
                  DueLevelUnder(lodObjects[o].levels, lodDistances, Distance(o))]_vars

\* C7, as claimed: after a culling pass every tested mesh is visible exactly
\* when it intersects the frustum and was originally visible, the original
\* flag being captured only at the first test; and a mesh its author has just
\* hidden is not visible after the pass.
C7_CullingKeepsAuthorFlag ==
    [][(optOp' = <<"update", "">> /\ frustumCullingEnabled) =>
          \A o \in DOMAIN meshes :
              meshes[o].inScene =>
                  /\ meshes'[o].originallyVisible # Undefined
                  /\ meshes[o].originallyVisible # Undefined
                         => meshes'[o].originallyVisible = meshes[o].originallyVisible
                  /\ meshes'[o].visible =
                         (IntersectsFrustum(o, viewAt, viewFacing)
                              /\ meshes'[o].originallyVisible[1])
                  /\ optOp = <<"hide", o>> => ~meshes'[o].visible]_vars

\* C8, as claimed: in one frame no node's visible flag is written by both
\* updateLOD and the culler, and the culler writes no level of a LOD node.
C8_OneWriterPerNode ==
    /\ lodWrote \cap cullWrote = {}
    /\ \A n \in cullWrote : n[2] = 0

\* C13, as claimed: once a registered object has been removed from the world
\* no node of it is in the scene, neither the mesh nor a level of its LOD
\* node, and its entry is gone from the lodObjects registry.
C13_RemovalReleasesTheLOD ==
    \A o \in DOMAIN meshes :
        o \notin worldObjects =>
            /\ o \notin DOMAIN lodObjects
            /\ \A n \in SceneNodes(meshes, lodObjects) : n[1] # o

\* C25, as claimed: right after toggleOptimization('culling', false) every
\* world mesh the culler has tested (the culler alone gives a world mesh its
\* userData.originallyVisible) has visible equal to originallyVisible.
C25_CullingOffRestoresTheTested ==
    (optOp = <<"toggleOptimization", "culling">> /\ ~frustumCullingEnabled) =>
        \A o \in DOMAIN meshes :
            meshes[o].originallyVisible # Undefined =>
                meshes[o].visible = meshes[o].originallyVisible[1]

\* C26: the levels of every registered object begin with the full-detail
\* one at distance 0, and their distances grow strictly with the index.
C26_LevelsOrdered ==
    \A o \in DOMAIN lodObjects :
        LET levels == lodObjects[o].levels
        IN  /\ Len(levels) >= 1
            /\ levels[1].kind = "full"
            /\ levels[1].distance = 0
            /\ \A i \in 1 .. Len(levels) - 1 :
                   levels[i].distance < levels[i + 1].distance

\* C26's case: the statue, for which neither the medium nor the low level
\* could be built, registered while the near preset was current, and the
\* rock or the relic, with all four levels, while the far preset was.
C26_Witness ==
    \E o \in DOMAIN lodObjects :
        \/ /\ Len(lodObjects[o].levels) = 2
           /\ lodObjects[o].levels[2].distance = NearDistances[3]
        \/ /\ Len(lodObjects[o].levels) = 4
           /\ lodObjects[o].levels[2].distance = FarDistances[1]

\* lodObjects.size: the entries of the world meshes and those of the clones.
LodObjectsSize == Cardinality(DOMAIN lodObjects) + cloneEntries

\* C27: a run of forceLODUpdate that follows another, nothing having been
\* done in between, registers nothing, leaves the scene graph as it is, and
\* no level clone is ever a managed object of its own.
C27_ForceLODUpdateIdempotent ==
    [][(optOp[1] = "forceLODUpdate" /\ optOp'[1] = "forceLODUpdate") =>
          /\ LodObjectsSize' = LodObjectsSize
          /\ sceneChildren' = sceneChildren
          /\ cloneEntries' = 0]_vars

\* The visible flag of the node n of SceneNodes.
FlagOf(n) ==
    IF n[2] = 0 THEN meshes[n[1]].visible ELSE lodObjects[n[1]].levels[n[2]].visible

\* C28: after a culling pass visibleObjects is the number of tested nodes
\* whose visible flag is true, culledObjects the number of those whose flag
\* is false, and the two add up to the number of nodes tested.
C28_CountersMatchFlags ==
    (optOp = <<"update", "">> /\ frustumCullingEnabled) =>
        LET tested == SceneNodes(meshes, lodObjects)
        IN  /\ performanceStats.visibleObjects
                   = Cardinality({n \in tested : FlagOf(n)})
            /\ performanceStats.culledObjects
                   = Cardinality({n \in tested : ~FlagOf(n)})
            /\ performanceStats.visibleObjects + performanceStats.culledObjects
                   = Cardinality(tested)

\* The values of the objects map: an object is known by the id it was
\* registered under.
ObjectValues == worldObjects

\* C29: across every step the elements of interactiveObjects and of npcs are
\* values of the objects map, every npc is an interactive object, and
\* removeObject with an id the map does not hold changes nothing.
C29_ListsWithinObjects ==
    [][/\ \A i \in 1 .. Len(interactiveObjects') :
              interactiveObjects'[i] \in ObjectValues'
       /\ \A i \in 1 .. Len(npcs') :
              /\ npcs'[i] \in ObjectValues'
              /\ \E j \in 1 .. Len(interactiveObjects') :
                     interactiveObjects'[j] = npcs'[i]
       /\ \A o \in AllIds :
              (optOp' = <<"removeObject", o>> /\ o \notin worldObjects) =>
                  UNCHANGED <<worldObjects, interactiveObjects, npcs, sceneChildren,
                              meshes, objectIdCounter>>]_vars

\* C29's case: the first of two NPCs has just been removed, the second and a
\* building are still listed.
C29_Witness ==
    /\ optOp = <<"removeObject", "npc_0">>
    /\ "npc_0" \notin worldObjects
    /\ Len(npcs) = 1
    /\ Len(interactiveObjects) = 2

\* C19, as claimed: an object whose geometry has no parameters to rebuild it
\* from is given no medium and no low level by createLODForObject.
C19_NoLevelsWithoutParameters ==
    \A o \in DOMAIN lodObjects :
        ~HasParameters(o) =>
            \A i \in 1..Len(lodObjects[o].levels) :
                lodObjects[o].levels[i].kind \notin {"medium", "low"}

C10_ReRegistrationIsNoOp ==
    [][\A o \in DOMAIN lodObjects :
          optOp' = <<"createLODForObject", o>> =>
              /\ lodObjects' = lodObjects
              /\ meshes' = meshes
              /\ lodDistances' = lodDistances]_vars

\* C10's case: createLODForObject has just run on an object whose LOD node
\* had already been switched to a farther level by a frame update.
C10_Witness ==
    \E o \in DOMAIN lodObjects :
        /\ optOp = <<"createLODForObject", o>>
        /\ lodObjects[o].current > 1
        /\ ~meshes[o].inScene

(***************************************************************************)
(* Claims about the quality loop (checked under SpecQuality)               *)
(***************************************************************************)

\* C3, as claimed: under a constant 20 FPS stream, once the measured mean is
\* 20, every adjustment takes the pixel ratio down by a tenth, not below the
\* floor 0.5, and leaves it alone only at the floor.
C3_DecreasesToTheFloor ==
    [][(fpsStream = {20} /\ performanceStats.averageFPS = 20
            /\ optOp' = <<"update", "">>) =>
          pixelRatio' = IF pixelRatio > minPixelRatio
                        THEN Max(minPixelRatio, (pixelRatio * 9) \div 10)
                        ELSE pixelRatio]_vars

\* C4, as claimed: under a constant 45 FPS stream the pixel ratio keeps its
\* initial value and lodDistances stays [50, 150, 300].
C4_SteadyAt45 ==
    fpsStream = {45} =>
        /\ pixelRatio = Min(devicePixelRatio, maxInitialPixelRatio)
        /\ lodDistances = InitialDistances

\* C12, as claimed: in every reachable state 0.5 <= r <= devicePixelRatio for
\* the pixel ratio r.
C12_ScaleBetweenHalfAndDeviceRatio ==
    /\ pixelRatio >= minPixelRatio
    /\ pixelRatio <= devicePixelRatio

\* C12, amended: in every reachable state min(0.5, devicePixelRatio) <= r <=
\* devicePixelRatio: on a display whose ratio is below 0.5 the pixel ratio is
\* that ratio, below 0.5, from the start.
C12_ScaleWithinDeviceRatio ==
    /\ pixelRatio >= Min(minPixelRatio, devicePixelRatio)
    /\ pixelRatio <= devicePixelRatio

\* C12's case: on a display of ratio 3 the pixel ratio, 2 at the start, has
\* been raised by adaptiveQuality until the device's ratio stopped it.
C12_Witness ==
    /\ optOp = <<"update", "">>
    /\ devicePixelRatio > maxInitialPixelRatio
    /\ pixelRatio = devicePixelRatio

\* The presets lodDistances is ever assigned.
Presets == {InitialDistances, NearDistances, FarDistances}

StrictlyIncreasing(sq) == \A i \in 1 .. Len(sq) - 1 : sq[i] < sq[i + 1]

\* C21, as claimed: a frame whose adaptiveQuality finds the mean of the last
\* interval's samples under 25 sets the near preset, over 50 the far preset,
\* and from 25 to 50 leaves lodDistances alone; lodDistances is always one of
\* the three presets and strictly increasing.
C21_PresetByMean ==
    [][(optOp' = <<"update", "">> /\ sampled[2] > 0) =>
          /\ sampled[1] < 25 * sampled[2] => lodDistances' = NearDistances
          /\ sampled[1] > 50 * sampled[2] => lodDistances' = FarDistances
          /\ (sampled[1] >= 25 * sampled[2] /\ sampled[1] <= 50 * sampled[2])
                => lodDistances' = lodDistances
          /\ lodDistances' \in Presets /\ StrictlyIncreasing(lodDistances')]_vars

\* C21, amended: the same of performanceStats.averageFPS, which is the mean
\* of the last interval's samples rounded to the nearest whole number (and
\* 60 until the first tick that finds a sample).
C21_PresetByRoundedMean ==
    [][optOp' = <<"update", "">> =>
          /\ performanceStats.averageFPS < 25 => lodDistances' = NearDistances
          /\ performanceStats.averageFPS > 50 => lodDistances' = FarDistances
          /\ (performanceStats.averageFPS >= 25 /\ performanceStats.averageFPS <= 50)
                => lodDistances' = lodDistances
          /\ lodDistances' \in Presets /\ StrictlyIncreasing(lodDistances')]_vars

\* C21's case: a frame has found a rounded mean of exactly 25, the samples'
\* own mean being 24.5, and has left the far preset in place.
C21_Witness ==
    /\ optOp = <<"update", "">>
    /\ performanceStats.averageFPS = 25
    /\ 2 * sampled[1] = 49 * sampled[2]
    /\ lodDistances = FarDistances

\* The counts of a geometry's parameters, with the least createReducedDetail
\* lets each come down to.
SegmentCounts == {<<"radialSegments", 3>>, <<"heightSegments", 1>>, <<"widthSegments", 1>>}

\* C24, as claimed: every count n there is in the parameters comes back as
\* max(least, floor(n * f)), which is never under the least and never over n.
C24_CountsScaledDown ==
    reducedDetail.called =>
        \A c \in SegmentCounts :
            LET n == reducedDetail.given[c[1]]
                m == reducedDetail.parameters[c[1]]
            IN  n > 0 =>
                    /\ m = Max(c[2], (n * reducedDetail.detailLevel) \div 10)
                    /\ m >= c[2]
                    /\ m <= n

\* C24, amended: the same, but the count is never over the greater of n and
\* the least (it is over n for 1 or 2 radial segments); the geometry is
\* built with no fewer segments than the parameters say.
C24_CountsScaledToTheFloor ==
    reducedDetail.called =>
        \A c \in SegmentCounts :
            LET n == reducedDetail.given[c[1]]
                m == reducedDetail.parameters[c[1]]
            IN  /\ n > 0 =>
                    /\ m = Max(c[2], (n * reducedDetail.detailLevel) \div 10)
                    /\ m >= c[2]
                    /\ m <= Max(n, c[2])
                    /\ reducedDetail.built[c[1]] >= m
                /\ n = 0 => m = 0

\* C24's case: a cylinder of 2 radial segments has come back with 3.
C24_Witness ==
    /\ reducedDetail.called
    /\ reducedDetail.class = "CylinderGeometry"
    /\ reducedDetail.given.radialSegments = 2
    /\ reducedDetail.parameters.radialSegments = 3

\* C17, as claimed: between two ticks of the 1-second timer the frames change
\* the pixel ratio at most once and the LOD thresholds at most once.
C17_OneAdjustmentPerInterval ==
    [][optOp' = <<"update", "">> =>
          /\ adjusted.ratio => pixelRatio' = pixelRatio
          /\ adjusted.distances => lodDistances' = lodDistances]_vars

\* C18: a frame that changes the pixel ratio lowers it to nine tenths or
\* raises it to eleven tenths of what it was, and stops at 0.5 or at
\* devicePixelRatio only when that step would go past it.
C18_SingleTenPercentStep ==
    [][optOp' = <<"update", "">> =>
          /\ pixelRatio' < pixelRatio =>
                \/ pixelRatio' = (pixelRatio * 9) \div 10
                \/ /\ pixelRatio' = minPixelRatio
                   /\ (pixelRatio * 9) \div 10 < minPixelRatio
          /\ pixelRatio' > pixelRatio =>
                \/ pixelRatio' = (pixelRatio * 11) \div 10
                \/ /\ pixelRatio' = devicePixelRatio
                   /\ (pixelRatio * 11) \div 10 > devicePixelRatio]_vars

\* C18's case: the frames have raised the ratio above its first value and
\* then, the average having fallen under 30, lowered it again.
C18_Witness ==
    /\ optOp = <<"update", "">>
    /\ adjusted.ratio
    /\ performanceStats.averageFPS < 30
    /\ pixelRatio > maxInitialPixelRatio
    /\ pixelRatio < devicePixelRatio

(***************************************************************************)
(* Claims about the terrain (checked under SpecTerrain)                    *)
(***************************************************************************)

\* The cell a coordinate falls in: the whole number i with
\* i <= ((coord + size/2) / size) * segments < i + 1.
CellOf(coord) ==
    CHOOSE i \in -2 .. (segments + 2) :
        /\ 2 * size * i <= (2 * coord + size) * segments
        /\ (2 * coord + size) * segments < 2 * size * (i + 1)

\* C9, as claimed: for x or z outside [-size/2, size/2] getHeightAt returns 0
\* and for every other point heightData[i][j] of the cell (i, j) of (x, z).
C9_ZeroOutsideClosedSquare ==
    (heightResult.called /\ Len(heightResult.grid) = 1) =>
        LET x == heightResult.x
            z == heightResult.z
        IN  IF 2 * x < -size \/ 2 * x > size \/ 2 * z < -size \/ 2 * z > size
            THEN heightResult.height = 0
            ELSE heightResult.height =
                     HeightSample(heightResult.grid[1], CellOf(x), CellOf(z))

\* C9, amended: getHeightAt returns 0 before the grid is generated and for
\* every (x, z) whose cell index is outside [0, segments), that is x or z
\* outside the half-open range [-size/2, size/2); for every other point it
\* returns heightData[i][j] of its cell; and the call leaves the grid as it was.
C9_ZeroOutsideGrid ==
    heightResult.called =>
        LET i == CellOf(heightResult.x)
            j == CellOf(heightResult.z)
        IN  /\ heightResult.grid = heightData
            /\ heightResult.height =
                   IF Len(heightResult.grid) = 0 THEN 0
                   ELSE IF i < 0 \/ i >= segments \/ j < 0 \/ j >= segments THEN 0
                   ELSE HeightSample(heightResult.grid[1], i, j)

\* C9's case: a query on the edge x = size/2 of a generated grid returned 0
\* although the sample heightData[segments][j] is not 0.
C9_Witness ==
    /\ heightResult.called
    /\ Len(heightResult.grid) = 1
    /\ 2 * heightResult.x = size
    /\ heightResult.height = 0
    /\ HeightSample(heightResult.grid[1], segments, CellOf(heightResult.z)) # 0

====
